---------------------------- MODULE Spec2Model ----------------------------
(***************************************************************************)
(* Stock Scout: the enrichment cache orchestrator (src/lib/dataCache.ts),  *)
(* the shared Polygon fetch gate (server/polygonRateLimit.ts), the         *)
(* universe quote service (server/universeQuotesService.ts, with           *)
(* server/fileCache.ts) and the request throttle of the Polygon stock      *)
(* provider, as state machines.                                            *)
(* One action is one JavaScript task: the synchronous code of a            *)
(* call, or the continuation that runs when an awaited file read, network  *)
(* response or timer completes, up to the next await of such an event      *)
(* (promise reactions that are queued by the task run before any other     *)
(* task and belong to it).                                                 *)
(***************************************************************************)
EXTENDS Integers, Sequences, FiniteSets, TLC

VARIABLES
    state,               \* dataCache.ts: the module-level CacheState
    preloadInFlight,     \* dataCache.ts: the pending preload (a run id) or NULL
    liveCikMap,          \* dataCache.ts: the cached live ticker->CIK map or NULL
    liveCikMapInFlight,  \* dataCache.ts: the pending live-map fetch or NULL
    runs,                \* one record per runPreload() invocation: its position and locals
    dataMode,            \* process.env.DATA_MODE, fixed for the process
    now,                 \* the wall clock read by new Date(), in milliseconds
    ret,                 \* what the API call made by the last step returned (NULL: no call)
    gateNow,             \* the wall clock read by the fetch gate's Date.now()
    lastRequestAt,       \* polygonRateLimit.ts: the gate's last-request timestamp
    callers,             \* one record per polygonRateLimitedFetch() invocation
    released,            \* the times at which the gate issued fetch(url), in order
    cacheEntry,          \* universeQuotesService.ts: the in-memory quote entry or NULL
    inFlightRefresh,     \* universeQuotesService.ts: the pending refresh (an id) or NULL
    fileCache,           \* data/cache/universe_quotes.json: the entry on disk or NULL
    polygonApiKey,       \* whether process.env.POLYGON_API_KEY is set, fixed for the process
    quoteCalls,          \* one record per getUniverseQuotes() invocation
    refreshes,           \* one record per refreshQuotes() invocation
    directFetches,       \* the times at which dataCache.ts issued a Polygon fetch(url), in order
    providerLastRequestAt, \* the Polygon stock provider's own last-request timestamp
    providerCallers,     \* one record per rateLimitedFetch() invocation of the stock provider
    providerReleased,    \* the times at which the stock provider issued fetch(url), in order
    routeCalls,          \* one record per GET /api/ticker request
    input,               \* the arguments a pure function is applied to (NULL: none)
    output               \* what the functions applied to `input` returned

cacheVars == <<state, preloadInFlight, liveCikMap, liveCikMapInFlight, runs, dataMode, now, ret>>
gateVars == <<gateNow, lastRequestAt, callers, released>>
quoteVars == <<cacheEntry, inFlightRefresh, fileCache, polygonApiKey, quoteCalls, refreshes>>
trafficVars == <<directFetches, providerLastRequestAt, providerCallers, providerReleased>>
routeVars == <<routeCalls>>
pureVars == <<input, output>>
vars == <<state, preloadInFlight, liveCikMap, liveCikMapInFlight, runs, dataMode, now, ret,
          gateNow, lastRequestAt, callers, released,
          cacheEntry, inFlightRefresh, fileCache, polygonApiKey, quoteCalls, refreshes,
          directFetches, providerLastRequestAt, providerCallers, providerReleased,
          routeCalls, input, output>>

\* What the code of dataCache.ts, and of polygonRateLimit.ts, cannot touch.
outsideCache == <<gateVars, quoteVars, trafficVars, routeVars, pureVars>>
outsideGate == <<cacheVars, quoteVars, trafficVars, routeVars, pureVars>>

\* null / undefined.  A nullable value is a record or a tuple, so that it can be
\* compared with NULL: a nullable string or timestamp x is the 1-tuple <<x>>.
NULL == <<>>

--------------------------------------------------------------------------
(* Bounds of the model *)

UniverseSize == 2
MaxRuns == 2

--------------------------------------------------------------------------
(* The fixed universe *)

top50MarketCap == <<"AAPL", "MSFT", "NVDA", "AMZN", "META">>

Tickers == SubSeq(top50MarketCap, 1, UniverseSize)

TickerSet == {Tickers[i] : i \in 1..Len(Tickers)}

RunIds == 1..MaxRuns

--------------------------------------------------------------------------
(* Numbers.  A JavaScript number is modelled by the exact rational it      *)
(* stands for, [n |-> numerator, d |-> denominator > 0] in lowest terms;   *)
(* amounts of dollars and counts of shares are in units of 10^8.  The     *)
(* arithmetic is written as functions, whose arguments are values.         *)

Abs(x) == IF x < 0 THEN -x ELSE x

GCD[a \in Nat, b \in Nat] == IF b = 0 THEN a ELSE GCD[b, a % b]

\* The records that stand for JavaScript numbers.
Q == [n : Int, d : Int]

Rat[n \in Int, d \in Int] ==
    LET g == GCD[Abs(n), Abs(d)]
        s == IF d < 0 THEN -1 ELSE 1
    IN  [n |-> s * (n \div g), d |-> s * (d \div g)]

Num[i \in Int] == [n |-> i, d |-> 1]

RatAdd[a \in Q, b \in Q] == Rat[a.n * b.d + b.n * a.d, a.d * b.d]

RatSub[a \in Q, b \in Q] == Rat[a.n * b.d - b.n * a.d, a.d * b.d]

RatMul[a \in Q, b \in Q] == Rat[a.n * b.n, a.d * b.d]

RatDiv[a \in Q, b \in Q] == Rat[a.n * b.d, a.d * b.n]

RatAbs[a \in Q] == [n |-> Abs(a.n), d |-> a.d]

RatLeq(a, b) == a.n * b.d <= b.n * a.d

\* Math.round: the nearest integer, a half rounded up.
MathRound[a \in Q] == (2 * a.n + a.d) \div (2 * a.d)

Min[a \in Int, b \in Int] == IF a <= b THEN a ELSE b

Max[a \in Int, b \in Int] == IF a >= b THEN a ELSE b

--------------------------------------------------------------------------
(* lib/valueScore.ts *)

clamp25[value \in Q] == Min[25, Max[0, MathRound[value]]]

clamp100[value \in Q] == Min[100, Max[0, MathRound[value]]]

\* calcPeScore with the full score at a P/E of 15.
calcPeScore_Pivot15(peTtm) ==
    IF peTtm = NULL \/ peTtm.n <= 0 THEN 0
    ELSE clamp25[RatMul[Num[25], RatSub[Num[1], RatDiv[RatSub[peTtm, Num[15]], Num[30]]]]]

calcPeScore(peTtm) ==
    IF peTtm = NULL \/ peTtm.n <= 0 THEN 0
    ELSE clamp25[RatMul[Num[25], RatSub[Num[1], RatDiv[RatSub[peTtm, Num[10]], Num[30]]]]]

\* calcPsScore reaching zero at a P/S of 11.
calcPsScore_Divisor10(ps) ==
    IF ps = NULL THEN 0
    ELSE clamp25[RatMul[Num[25], RatSub[Num[1], RatDiv[RatSub[ps, Num[1]], Num[10]]]]]

\* calcPsScore with a missing P/S scored as the best case instead of the worst.
calcPsScore_NullIsBest(ps) ==
    IF ps = NULL THEN 25
    ELSE clamp25[RatMul[Num[25], RatSub[Num[1], RatDiv[RatSub[ps, Num[1]], Num[9]]]]]

calcPsScore(ps) ==
    IF ps = NULL THEN 0
    ELSE clamp25[RatMul[Num[25], RatSub[Num[1], RatDiv[RatSub[ps, Num[1]], Num[9]]]]]

\* calcRevenueGrowthScore with the divisor of the scoring module.
calcRevenueGrowthScore_Divisor30(revenueGrowthYoY) ==
    IF revenueGrowthYoY = NULL \/ revenueGrowthYoY.n <= 0 THEN 0
    ELSE clamp25[RatMul[RatDiv[revenueGrowthYoY, Num[30]], Num[25]]]

calcRevenueGrowthScore(revenueGrowthYoY) ==
    IF revenueGrowthYoY = NULL \/ revenueGrowthYoY.n <= 0 THEN 0
    ELSE clamp25[RatMul[RatDiv[revenueGrowthYoY, Num[20]], Num[25]]]

\* calcOperatingMarginScore without the clamp.
calcOperatingMarginScore_Unclamped(operatingMargin) ==
    IF operatingMargin = NULL \/ operatingMargin.n <= 0 THEN 0
    ELSE MathRound[RatMul[RatDiv[operatingMargin, Num[25]], Num[25]]]

calcOperatingMarginScore(operatingMargin) ==
    IF operatingMargin = NULL \/ operatingMargin.n <= 0 THEN 0
    ELSE clamp25[RatMul[RatDiv[operatingMargin, Num[25]], Num[25]]]

\* calculateValueScore with the total taken as the mean of the sub-scores.
calculateValueScore_MeanTotal(params) ==
    LET peScore == calcPeScore(params.peTtm)
        psScore == calcPsScore(params.ps)
        revenueGrowthScore == calcRevenueGrowthScore(params.revenueGrowthYoY)
        operatingMarginScore == calcOperatingMarginScore(params.operatingMargin)
    IN  [total |-> clamp100[Rat[peScore + psScore + revenueGrowthScore + operatingMarginScore, 4]],
         breakdown |-> [peScore |-> peScore, psScore |-> psScore,
                        revenueGrowthScore |-> revenueGrowthScore,
                        operatingMarginScore |-> operatingMarginScore]]

calculateValueScore(params) ==
    LET peScore == calcPeScore(params.peTtm)
        psScore == calcPsScore(params.ps)
        revenueGrowthScore == calcRevenueGrowthScore(params.revenueGrowthYoY)
        operatingMarginScore == calcOperatingMarginScore(params.operatingMargin)
    IN  [total |-> clamp100[Num[peScore + psScore + revenueGrowthScore + operatingMarginScore]],
         breakdown |-> [peScore |-> peScore, psScore |-> psScore,
                        revenueGrowthScore |-> revenueGrowthScore,
                        operatingMarginScore |-> operatingMarginScore]]

--------------------------------------------------------------------------
(* scoring/calculateValueScore.ts *)

clampComponent[value \in Q] == Min[25, Max[0, MathRound[value]]]

clampTotal[value \in Q] == Min[100, Max[0, MathRound[value]]]

\* Math.max(0, x)
RatMax0[x \in Q] == IF x.n < 0 THEN Num[0] ELSE x

\* calculateValueScore of the scoring module; value ?? fallback is written out.
scoringCalculateValueScore(fundamentals) ==
    LET pe == fundamentals.peTtm
        peScore ==
            IF pe = NULL \/ pe.n <= 0 THEN 0
            ELSE clampComponent[RatMul[Num[25],
                                       RatSub[Num[1], RatDiv[RatSub[pe, Num[10]], Num[30]]]]]
        ps == IF fundamentals.ps = NULL THEN Num[10] ELSE fundamentals.ps
        psScore ==
            clampComponent[RatMul[Num[25], RatSub[Num[1], RatDiv[RatSub[ps, Num[1]], Num[9]]]]]
        growth ==
            IF fundamentals.revenueGrowthYoY = NULL THEN Num[0]
            ELSE fundamentals.revenueGrowthYoY
        growthScore == clampComponent[RatMul[RatDiv[RatMax0[growth], Num[30]], Num[25]]]
        margin ==
            IF fundamentals.operatingMargin = NULL THEN Num[0]
            ELSE fundamentals.operatingMargin
        marginScore == clampComponent[RatMul[RatDiv[RatMax0[margin], Num[25]], Num[25]]]
    IN  [total |-> clampTotal[Num[peScore + psScore + growthScore + marginScore]],
         breakdown |-> [peScore |-> peScore, psScore |-> psScore,
                        growthScore |-> growthScore, marginScore |-> marginScore]]


--------------------------------------------------------------------------
(* dataCache.ts: what the environment can hand to one refresh *)

\* data/sec_cik_map.json as loadSecCikMap finds it: missing or unparsable, or the
\* JSON value it holds (the JSON null, or an object with entries for some tickers).
SeedFiles ==
    {[kind |-> "missing", keys |-> {}], [kind |-> "null", keys |-> {}]}
        \cup {[kind |-> "object", keys |-> S] : S \in {{Tickers[1]}, TickerSet}}

SeedEntry(ticker) == [cik |-> <<"cik", ticker>>, name |-> <<"name", ticker>>]

\* Close prices Polygon can report.
UpstreamPrices == {Rat[19379, 100]}

NoQuotes == [t \in TickerSet |-> NULL]

\* The quote maps fetchPolygonGroupedDaily can return (the empty one included).
GroupedResults ==
    {[t \in TickerSet |-> IF t \in S THEN [price |-> p] ELSE NULL] :
        S \in SUBSET TickerSet, p \in UpstreamPrices}

GroupedOutcomes ==
    {[threw |-> TRUE, result |-> NoQuotes]} \cup {[threw |-> FALSE, result |-> q] : q \in GroupedResults}

\* fetchPolygonPrevSingle(...).catch(() => null): a quote or null.
PrevOutcomes == {NULL} \cup {[price |-> p] : p \in UpstreamPrices}

NullFacts ==
    [epsTtm |-> NULL, revenueTtm |-> NULL, revenueGrowthYoY |-> NULL,
     operatingMargin |-> NULL, sharesOutstanding |-> NULL, asOf |-> NULL]

\* Results of parseCompanyFacts on payloads SEC can return.
SampleFacts ==
    {[epsTtm |-> Rat[643, 100], revenueTtm |-> Num[3833], revenueGrowthYoY |-> Rat[28, 10],
      operatingMargin |-> Rat[301, 10], sharesOutstanding |-> Num[154], asOf |-> <<1>>]}

\* fetchSecFacts: throws (bad response, missing SEC_USER_AGENT) or returns facts.
FactsOutcomes == {[threw |-> TRUE, facts |-> NullFacts]} \cup {[threw |-> FALSE, facts |-> f] : f \in SampleFacts}

\* The live ticker->CIK map: the fetch fails, or yields a map knowing some tickers.
LiveCikOutcomes ==
    {[threw |-> TRUE, keys |-> {}]} \cup {[threw |-> FALSE, keys |-> S] : S \in {{}, TickerSet}}

--------------------------------------------------------------------------
(* dataCache.ts: mock data *)

chars ==
    [AAPL |-> <<"A", "A", "P", "L">>, MSFT |-> <<"M", "S", "F", "T">>,
     NVDA |-> <<"N", "V", "D", "A">>, AMZN |-> <<"A", "M", "Z", "N">>,
     META |-> <<"M", "E", "T", "A">>]

charCodeAt ==
    [A |-> 65, D |-> 68, E |-> 69, F |-> 70, L |-> 76, M |-> 77, N |-> 78,
     P |-> 80, S |-> 83, T |-> 84, V |-> 86, Z |-> 90]

RECURSIVE sumCodes(_)
sumCodes(cs) == IF cs = <<>> THEN 0 ELSE charCodeAt[Head(cs)] + sumCodes(Tail(cs))

tickerSeed(ticker) == sumCodes(chars[ticker])

\* Number((30 + (seed % 900) + (seed % 37) * 0.33).toFixed(2))
mockPrice(ticker) ==
    LET seed == tickerSeed(ticker)
    IN  Rat[3000 + 100 * (seed % 900) + 33 * (seed % 37), 100]

buildMockFacts(ticker, asOf) ==
    LET seed == tickerSeed(ticker)
        revenueTtm == Num[60 + (seed % 220) * 9]
        opIncomeTtm == RatMul[revenueTtm, Rat[50 + (seed % 26) * 12, 1000]]
        priorRevenue == RatDiv[revenueTtm, Rat[1000 - 40 + (seed % 18) * 15, 1000]]
    IN  [epsTtm |-> Rat[12 + (seed % 80), 10],
         revenueTtm |-> revenueTtm,
         revenueGrowthYoY |-> RatMul[RatDiv[RatSub[revenueTtm, priorRevenue], RatAbs[priorRevenue]], Num[100]],
         operatingMargin |-> RatMul[RatDiv[opIncomeTtm, revenueTtm], Num[100]],
         sharesOutstanding |-> Rat[50 + (seed % 200), 10],
         asOf |-> asOf]

knownMockFacts(ticker, base, asOf) ==
    IF ticker = "AAPL"
    THEN [epsTtm |-> Rat[643, 100], revenueTtm |-> Num[3833], revenueGrowthYoY |-> Rat[28, 10],
          operatingMargin |-> Rat[301, 10], sharesOutstanding |-> Num[154], asOf |-> asOf]
    ELSE IF ticker = "MSFT"
    THEN [epsTtm |-> Rat[118, 10], revenueTtm |-> Num[2366], revenueGrowthYoY |-> Rat[154, 10],
          operatingMargin |-> Rat[446, 10], sharesOutstanding |-> Rat[744, 10], asOf |-> asOf]
    ELSE base


--------------------------------------------------------------------------
(* dataCache.ts: the preload pipeline *)

MaxDaysBack == 7

isRealMode == dataMode = "real"

\* A run that has not been started, and the locals of a started one.  The other
\* fields are history, not locals: `before` is the collection and lastUpdated the
\* cache held when the run started; `quoteSteps` and `enrichPasses` count the calls
\* of fetchUniverseQuotes and of enrichAllTickers the run made; `outcome` and
\* `noQuotes` record, for a finished run, how it ended and whether
\* fetchUniverseQuotes returned the empty map; `failed` holds the tickers whose CIK
\* the run could not resolve or whose fetchSecFacts threw.
NoRun ==
    [pc |-> "none", secMap |-> NULL, quotes |-> NoQuotes, daysBack |-> 0, k |-> 0,
     cikFallback |-> NULL, results |-> <<>>, thrown |-> NULL,
     before |-> NULL, quoteSteps |-> 0, enrichPasses |-> 0,
     outcome |-> "none", noQuotes |-> FALSE, failed |-> {}]

\* A finished run: its locals are gone.
DoneRun(r, outcome) ==
    [NoRun EXCEPT !.pc = "done", !.outcome = outcome, !.noQuotes = (r.quotes = NoQuotes),
                  !.quoteSteps = r.quoteSteps, !.enrichPasses = r.enrichPasses,
                  !.failed = r.failed]

Started == {id \in RunIds : runs[id].pc # "none"}

Active == {id \in RunIds : runs[id].pc \notin {"none", "done"}}

\* loadSecCikMap: any failure to read or parse gives the empty map.
loadSecCikMap(file) ==
    IF file.kind = "missing" THEN [kind |-> "object", keys |-> {}] ELSE file

\* enrichTicker with P/S taken from the share price instead of the market cap.
enrichTicker_PriceOverRevenue(ticker, secMap, quotes, facts) ==
    LET quote == quotes[ticker]
        latestPrice == IF quote = NULL THEN NULL ELSE quote.price
        secEntry == IF ticker \in secMap.keys THEN SeedEntry(ticker) ELSE NULL
        companyName == IF secEntry = NULL THEN NULL ELSE secEntry.name
        peTtm ==
            IF latestPrice # NULL /\ facts.epsTtm # NULL /\ facts.epsTtm.n # 0
            THEN RatDiv[latestPrice, facts.epsTtm] ELSE NULL
        marketCap ==
            IF latestPrice # NULL /\ facts.sharesOutstanding # NULL
            THEN RatMul[latestPrice, facts.sharesOutstanding] ELSE NULL
        ps ==
            IF latestPrice # NULL /\ facts.revenueTtm # NULL /\ facts.revenueTtm.n # 0
            THEN RatDiv[latestPrice, facts.revenueTtm] ELSE NULL
        score ==
            calculateValueScore([peTtm |-> peTtm, ps |-> ps,
                                 revenueGrowthYoY |-> facts.revenueGrowthYoY,
                                 operatingMargin |-> facts.operatingMargin])
    IN  [ticker |-> ticker, companyName |-> companyName, latestPrice |-> latestPrice,
         marketCap |-> marketCap, peTtm |-> peTtm, ps |-> ps, epsTtm |-> facts.epsTtm,
         revenueTtm |-> facts.revenueTtm, revenueGrowthYoY |-> facts.revenueGrowthYoY,
         operatingMargin |-> facts.operatingMargin, valueScore |-> score.total,
         scoreBreakdown |-> score.breakdown, fundamentalsAsOf |-> facts.asOf]

\* One iteration of the loop of enrichAllTickers, after `facts` is known.
enrichTicker(ticker, secMap, quotes, facts) ==
    LET quote == quotes[ticker]
        latestPrice == IF quote = NULL THEN NULL ELSE quote.price
        secEntry == IF ticker \in secMap.keys THEN SeedEntry(ticker) ELSE NULL
        companyName == IF secEntry = NULL THEN NULL ELSE secEntry.name
        peTtm ==
            IF latestPrice # NULL /\ facts.epsTtm # NULL /\ facts.epsTtm.n # 0
            THEN RatDiv[latestPrice, facts.epsTtm] ELSE NULL
        marketCap ==
            IF latestPrice # NULL /\ facts.sharesOutstanding # NULL
            THEN RatMul[latestPrice, facts.sharesOutstanding] ELSE NULL
        ps ==
            IF marketCap # NULL /\ facts.revenueTtm # NULL /\ facts.revenueTtm.n # 0
            THEN RatDiv[marketCap, facts.revenueTtm] ELSE NULL
        score ==
            calculateValueScore([peTtm |-> peTtm, ps |-> ps,
                                 revenueGrowthYoY |-> facts.revenueGrowthYoY,
                                 operatingMargin |-> facts.operatingMargin])
    IN  [ticker |-> ticker, companyName |-> companyName, latestPrice |-> latestPrice,
         marketCap |-> marketCap, peTtm |-> peTtm, ps |-> ps, epsTtm |-> facts.epsTtm,
         revenueTtm |-> facts.revenueTtm, revenueGrowthYoY |-> facts.revenueGrowthYoY,
         operatingMargin |-> facts.operatingMargin, valueScore |-> score.total,
         scoreBreakdown |-> score.breakdown, fundamentalsAsOf |-> facts.asOf]

\* secEntry?.cik ?? cikFallback?.get(ticker) ?? null
resolveCik(ticker, secMap, cikFallback) ==
    IF ticker \in secMap.keys THEN SeedEntry(ticker).cik
    ELSE IF cikFallback # NULL /\ ticker \in cikFallback.keys THEN <<"cik", ticker>>
    ELSE NULL

\* The loop of enrichAllTickers from ticker number k on, run until it awaits a
\* fetchSecFacts response (pc "fetchSecFacts"), returns (pc "enriched") or throws
\* (pc "threw": secMap[ticker] on a seed file that holds the JSON null).
\* results.push(e): the CHOOSE over a one-element set names the run after the push,
\* with e the value of the pushed entry.
RECURSIVE enrichLoop(_, _, _)
enrichLoop(r, k, t) ==
    IF k > Len(Tickers) THEN [r EXCEPT !.pc = "enriched", !.k = k]
    ELSE IF r.secMap.kind = "null"
    THEN [r EXCEPT !.pc = "threw", !.k = k,
                   !.thrown = <<"Cannot read properties of null">>]
    ELSE IF isRealMode
    THEN IF resolveCik(Tickers[k], r.secMap, r.cikFallback) = NULL
         THEN CHOOSE nr \in {enrichLoop([r EXCEPT !.results = Append(@, e),
                                                   !.failed = @ \cup {Tickers[k]}], k + 1, t) :
                                e \in {enrichTicker(Tickers[k], r.secMap, r.quotes, NullFacts)}} : TRUE
         ELSE [r EXCEPT !.pc = "fetchSecFacts", !.k = k]
    ELSE LET base == buildMockFacts(Tickers[k], <<t>>)
             facts == knownMockFacts(Tickers[k], base, <<t>>)
         IN  CHOOSE nr \in {enrichLoop([r EXCEPT !.results = Append(@, e)], k + 1, t) :
                               e \in {enrichTicker(Tickers[k], r.secMap, r.quotes, facts)}} : TRUE

\* enrichAllTickers fetching the live map whether or not it is cached.
enrichAllTickers_AlwaysFetches(r, id, t) ==
    IF ~isRealMode
    THEN enrichLoop([r EXCEPT !.cikFallback = NULL, !.enrichPasses = @ + 1], 1, t)
    ELSE [r EXCEPT !.pc = "getLiveCikMap", !.enrichPasses = @ + 1]

\* The start of enrichAllTickers, up to its first await of a response.
enrichAllTickers(r, id, t) ==
    IF ~isRealMode \/ liveCikMap # NULL
    THEN enrichLoop([r EXCEPT !.cikFallback = IF isRealMode THEN liveCikMap ELSE NULL,
                              !.enrichPasses = @ + 1], 1, t)
    ELSE [r EXCEPT !.pc = "getLiveCikMap", !.enrichPasses = @ + 1]

\* The tickers still without a quote, from number k on, in universe order.
missingFrom(quotes, k) == {j \in k..Len(Tickers) : quotes[Tickers[j]] = NULL}

\* fetchUniverseQuotes after the grouped-daily attempts: the per-ticker fallback
\* for the next missing ticker, or on to enrichAllTickers.
fillGaps(r, k, id, t) ==
    IF missingFrom(r.quotes, k) # {}
    THEN [r EXCEPT !.pc = "fetchPolygonPrevSingle", !.daysBack = 0,
                   !.k = CHOOSE j \in missingFrom(r.quotes, k) :
                            \A i \in missingFrom(r.quotes, k) : j <= i]
    ELSE enrichAllTickers([r EXCEPT !.daysBack = 0, !.k = 0], id, t)

\* fetchUniverseQuotes up to its first await of a response.
fetchUniverseQuotes(r, id, t) ==
    IF ~isRealMode
    THEN enrichAllTickers([r EXCEPT !.quotes = [x \in TickerSet |-> [price |-> mockPrice(x)]],
                                    !.quoteSteps = @ + 1], id, t)
    ELSE [r EXCEPT !.pc = "fetchPolygonGroupedDaily", !.daysBack = 1, !.quoteSteps = @ + 1]

\* runPreload's success path (lines 147-149), then the finally() callback that
\* triggerPreload chained to it.
publish(id, r, t) ==
    /\ state' = [state EXCEPT !.tickers = r.results, !.lastUpdated = <<t>>, !.status = "ready"]
    /\ runs' = [runs EXCEPT ![id] = DoneRun(r, "ready")]
    /\ preloadInFlight' = NULL

\* runPreload's catch block, then the finally() callback.
fail(id, r) ==
    /\ state' = [state EXCEPT !.status = "error", !.error = r.thrown]
    /\ runs' = [runs EXCEPT ![id] = DoneRun(r, "error")]
    /\ preloadInFlight' = NULL

\* runPreload still awaits a response: only its locals have changed.
suspend(id, r) ==
    /\ runs' = [runs EXCEPT ![id] = r]
    /\ UNCHANGED <<state, preloadInFlight>>

\* getLiveCikMap sets liveCikMapInFlight when it starts the fetch and clears it in
\* its finally block.
liveCikHandle(id, r) ==
    liveCikMapInFlight' =
        IF r.pc = "getLiveCikMap" THEN [run |-> id]
        ELSE IF liveCikMapInFlight = [run |-> id] THEN NULL ELSE liveCikMapInFlight

\* runPreloadStep with a catch block that also drops the cached data.
runPreloadStep_ErrorClears(id, r, t) ==
    /\ IF r.pc = "enriched" THEN publish(id, r, t)
       ELSE IF r.pc = "threw"
       THEN /\ state' = [state EXCEPT !.status = "error", !.error = r.thrown,
                                      !.tickers = <<>>, !.lastUpdated = NULL]
            /\ runs' = [runs EXCEPT ![id] = DoneRun(r, "error")]
            /\ preloadInFlight' = NULL
       ELSE suspend(id, r)
    /\ liveCikHandle(id, r)
    /\ ret' = NULL

\* runPreloadStep with enrichAllTickers pushing into state.tickers as it goes.
runPreloadStep_PublishesPartial(id, r, t) ==
    /\ IF r.pc = "enriched" THEN publish(id, r, t)
       ELSE IF r.pc = "threw" THEN fail(id, r)
       ELSE /\ runs' = [runs EXCEPT ![id] = r]
            /\ state' = [state EXCEPT !.tickers = r.results]
            /\ UNCHANGED preloadInFlight
    /\ liveCikHandle(id, r)
    /\ ret' = NULL

\* runPreloadStep without the finally() callback on the failure path.
runPreloadStep_KeepsHandle(id, r, t) ==
    /\ IF r.pc = "enriched" THEN publish(id, r, t)
       ELSE IF r.pc = "threw"
       THEN /\ state' = [state EXCEPT !.status = "error", !.error = r.thrown]
            /\ runs' = [runs EXCEPT ![id] = DoneRun(r, "error")]
            /\ UNCHANGED preloadInFlight
       ELSE suspend(id, r)
    /\ liveCikHandle(id, r)
    /\ ret' = NULL

\* What one task of runPreload leaves behind: r is the run once the task has run up
\* to its next await of a response, to the end of enrichAllTickers, or to a throw.
\* The finally() callback is a promise reaction queued by the task that ends
\* runPreload; it runs before any other task, so it is part of that step.
runPreloadStep(id, r, t) ==
    /\ IF r.pc = "enriched" THEN publish(id, r, t)
       ELSE IF r.pc = "threw" THEN fail(id, r)
       ELSE suspend(id, r)
    /\ liveCikHandle(id, r)
    /\ ret' = NULL

--------------------------------------------------------------------------
(* dataCache.ts: the public API *)

\* ...(state.error ? { error: state.error } : {})
snapshotOf(st) ==
    [status |-> st.status, tickers |-> st.tickers, lastUpdated |-> st.lastUpdated,
     error |-> IF st.error = NULL \/ st.error = <<"">> THEN NULL ELSE st.error]

\* getCacheSnapshot made to wait for the pending preload.
getCacheSnapshot_AwaitsPreload ==
    /\ preloadInFlight = NULL
    /\ ret' = [op |-> "getCacheSnapshot", arg |-> NULL, value |-> snapshotOf(state)]
    /\ UNCHANGED <<state, preloadInFlight, liveCikMap, liveCikMapInFlight, runs, dataMode, now>>
    /\ UNCHANGED outsideCache

getCacheSnapshot ==
    /\ ret' = [op |-> "getCacheSnapshot", arg |-> NULL, value |-> snapshotOf(state)]
    /\ UNCHANGED <<state, preloadInFlight, liveCikMap, liveCikMapInFlight, runs, dataMode, now>>
    /\ UNCHANGED outsideCache

\* runPreload without the assignment of 'loading'.
runPreload_SkipsLoading(id) ==
    /\ state' = [state EXCEPT !.error = NULL]
    /\ runs' = [runs EXCEPT ![id] =
                  [NoRun EXCEPT !.pc = "loadSecCikMap",
                                !.before = [tickers |-> state.tickers,
                                            lastUpdated |-> state.lastUpdated]]]

\* runPreload without the reset of the error message.
runPreload_KeepsError(id) ==
    /\ state' = [state EXCEPT !.status = "loading"]
    /\ runs' = [runs EXCEPT ![id] =
                  [NoRun EXCEPT !.pc = "loadSecCikMap",
                                !.before = [tickers |-> state.tickers,
                                            lastUpdated |-> state.lastUpdated]]]

\* runPreload up to its first await (of the file read of loadSecCikMap).
runPreload(id) ==
    /\ state' = [state EXCEPT !.status = "loading", !.error = NULL]
    /\ runs' = [runs EXCEPT ![id] =
                  [NoRun EXCEPT !.pc = "loadSecCikMap",
                                !.before = [tickers |-> state.tickers,
                                            lastUpdated |-> state.lastUpdated]]]

\* return Promise.resolve()
returnResolved(forceRefresh) ==
    /\ ret' = [op |-> "triggerPreload", arg |-> <<forceRefresh>>, value |-> [resolved |-> TRUE]]
    /\ UNCHANGED <<state, preloadInFlight, runs>>

\* return preloadInFlight
returnInFlight(forceRefresh) ==
    /\ ret' = [op |-> "triggerPreload", arg |-> <<forceRefresh>>, value |-> preloadInFlight]
    /\ UNCHANGED <<state, preloadInFlight, runs>>

\* triggerPreload's last branch without the assignment of the handle.
startPreload_NoHandle(forceRefresh) ==
    \E id \in RunIds :
        /\ id = Cardinality(Started) + 1
        /\ runPreload(id)
        /\ UNCHANGED preloadInFlight
        /\ ret' = [op |-> "triggerPreload", arg |-> <<forceRefresh>>, value |-> [run |-> id]]

\* preloadInFlight = runPreload().finally(...); return preloadInFlight
startPreload(forceRefresh) ==
    \E id \in RunIds :
        /\ id = Cardinality(Started) + 1
        /\ runPreload(id)
        /\ preloadInFlight' = [run |-> id]
        /\ ret' = [op |-> "triggerPreload", arg |-> <<forceRefresh>>, value |-> [run |-> id]]

\* triggerPreload without the check of preloadInFlight.
triggerPreload_NoSingleFlight(forceRefresh) ==
    /\ IF ~forceRefresh /\ state.status = "ready" THEN returnResolved(forceRefresh)
       ELSE startPreload(forceRefresh)
    /\ UNCHANGED <<liveCikMap, liveCikMapInFlight, dataMode, now>>
    /\ UNCHANGED outsideCache

\* triggerPreload without the early return on 'ready'.
triggerPreload_AlwaysRuns(forceRefresh) ==
    /\ IF preloadInFlight # NULL THEN returnInFlight(forceRefresh)
       ELSE startPreload(forceRefresh)
    /\ UNCHANGED <<liveCikMap, liveCikMapInFlight, dataMode, now>>
    /\ UNCHANGED outsideCache

\* triggerPreload with the early return on 'ready' whatever forceRefresh is.
triggerPreload_IgnoresForce(forceRefresh) ==
    /\ IF state.status = "ready" THEN returnResolved(forceRefresh)
       ELSE IF preloadInFlight # NULL THEN returnInFlight(forceRefresh)
       ELSE startPreload(forceRefresh)
    /\ UNCHANGED <<liveCikMap, liveCikMapInFlight, dataMode, now>>
    /\ UNCHANGED outsideCache

triggerPreload(forceRefresh) ==
    /\ IF ~forceRefresh /\ state.status = "ready" THEN returnResolved(forceRefresh)
       ELSE IF preloadInFlight # NULL THEN returnInFlight(forceRefresh)
       ELSE startPreload(forceRefresh)
    /\ UNCHANGED <<liveCikMap, liveCikMapInFlight, dataMode, now>>
    /\ UNCHANGED outsideCache

TriggerPreload == \E forceRefresh \in BOOLEAN : triggerPreload(forceRefresh)

--------------------------------------------------------------------------
(* dataCache.ts: the continuations of runPreload, one per awaited response *)

\* The file read of loadSecCikMap completes.  The run reads the clock later on
\* (new Date() at lines 240, 533 and 148); what matters of those readings is how
\* they compare with the readings the cache holds from the run before, and the
\* clock has a resolution of a millisecond: t is that reading again or a later
\* one (and a later one than the start of the process when the cache holds none).
LoadSecCikMapDone(id) ==
    /\ runs[id].pc = "loadSecCikMap"
    /\ \E file \in SeedFiles,
             t \in IF state.lastUpdated = NULL THEN {now + 1} ELSE {now, now + 1} :
          /\ now' = t
          /\ \E nr \in {fetchUniverseQuotes([runs[id] EXCEPT !.secMap = loadSecCikMap(file)], id, t)} :
                 runPreloadStep(id, nr, t)
    /\ UNCHANGED <<liveCikMap, dataMode>>
    /\ UNCHANGED outsideCache

\* One grouped-daily attempt of fetchUniverseQuotes completes.
GroupedDailyDone(id) ==
    /\ runs[id].pc = "fetchPolygonGroupedDaily"
    /\ \E o \in GroupedOutcomes :
          LET r == runs[id]
              got == ~o.threw /\ o.result # NoQuotes
          IN  \E nr \in {IF got THEN fillGaps([r EXCEPT !.quotes = o.result], 1, id, now)
                          ELSE IF r.daysBack < MaxDaysBack THEN [r EXCEPT !.daysBack = @ + 1]
                          ELSE fillGaps(r, 1, id, now)} :
                  runPreloadStep(id, nr, now)
    /\ UNCHANGED <<liveCikMap, dataMode, now>>
    /\ UNCHANGED outsideCache

\* One per-ticker fallback of fetchUniverseQuotes completes.
PrevSingleDone(id) ==
    /\ runs[id].pc = "fetchPolygonPrevSingle"
    /\ \E q \in PrevOutcomes :
          LET r == runs[id]
              filled == IF q # NULL THEN [r EXCEPT !.quotes[Tickers[r.k]] = q] ELSE r
          IN  \E nr \in {fillGaps(filled, r.k + 1, id, now)} : runPreloadStep(id, nr, now)
    /\ UNCHANGED <<liveCikMap, dataMode, now>>
    /\ UNCHANGED outsideCache

\* The live CIK map fetch of getLiveCikMap completes.
LiveCikMapDone(id) ==
    /\ runs[id].pc = "getLiveCikMap"
    /\ \E o \in LiveCikOutcomes :
          LET map == IF o.threw THEN NULL ELSE [keys |-> o.keys]
          IN  /\ liveCikMap' = IF o.threw THEN liveCikMap ELSE map
              /\ \E nr \in {enrichLoop([runs[id] EXCEPT !.cikFallback = map], 1, now)} :
                     runPreloadStep(id, nr, now)
    /\ UNCHANGED <<dataMode, now>>
    /\ UNCHANGED outsideCache

\* A variant in which a fetchSecFacts that throws ends the loop.
SecFactsDone_Aborts(id) ==
    /\ runs[id].pc = "fetchSecFacts"
    /\ \E o \in FactsOutcomes :
          LET r == runs[id]
          IN  \E e \in {enrichTicker(Tickers[r.k], r.secMap, r.quotes, o.facts)} :
              \E nr \in {IF o.threw
                          THEN [r EXCEPT !.pc = "threw", !.thrown = <<"SEC request failed">>,
                                         !.failed = @ \cup {Tickers[r.k]}]
                          ELSE enrichLoop([r EXCEPT !.results = Append(@, e)], r.k + 1, now)} :
                  runPreloadStep(id, nr, now)
    /\ UNCHANGED <<liveCikMap, dataMode, now>>
    /\ UNCHANGED outsideCache

\* One fetchSecFacts of enrichAllTickers completes.
SecFactsDone(id) ==
    /\ runs[id].pc = "fetchSecFacts"
    /\ \E o \in FactsOutcomes :
          LET r == runs[id]
              facts == IF o.threw THEN NullFacts ELSE o.facts
          IN  \E e \in {enrichTicker(Tickers[r.k], r.secMap, r.quotes, facts)} :
              \E nr \in {enrichLoop([r EXCEPT !.results = Append(@, e),
                                               !.failed = IF o.threw THEN @ \cup {Tickers[r.k]} ELSE @],
                                    r.k + 1, now)} :
                  runPreloadStep(id, nr, now)
    /\ UNCHANGED <<liveCikMap, dataMode, now>>
    /\ UNCHANGED outsideCache

--------------------------------------------------------------------------
(* polygonRateLimit.ts: the shared Polygon rate limiter.  Times are in ms; *)
(* the clock of this part advances in steps of one second.                  *)

MIN_REQUEST_INTERVAL_MS == 12 * 1000

MaxCalls == 3
MaxTicks == 26

\* The release of a request without the update of lastRequestAt.
issueFetch_NoStamp(c) ==
    /\ released' = Append(released, gateNow)
    /\ UNCHANGED lastRequestAt

\* lastRequestAt = Date.now(); return fetch(url, ...)
issueFetch(c) ==
    /\ lastRequestAt' = gateNow
    /\ released' = Append(released, gateNow)

\* A call of polygonRateLimitedFetch, up to its await of the timer or, when it need
\* not wait, to fetch(url).
polygonRateLimitedFetch ==
    /\ Len(callers) < MaxCalls
    /\ LET elapsed == gateNow - lastRequestAt
           c == Len(callers) + 1
       IN  IF elapsed < MIN_REQUEST_INTERVAL_MS
           THEN /\ callers' = Append(callers, [pc |-> "waiting",
                                               due |-> gateNow + (MIN_REQUEST_INTERVAL_MS - elapsed)])
                /\ UNCHANGED <<lastRequestAt, released>>
           ELSE /\ callers' = Append(callers, [pc |-> "fetching", due |-> gateNow])
                /\ issueFetch(c)
    /\ UNCHANGED gateNow
    /\ UNCHANGED outsideGate

\* The timer of a waiting caller fires (at its due time or later) and the caller
\* goes on to fetch(url).
TimerFired(c) ==
    /\ callers[c].pc = "waiting"
    /\ gateNow >= callers[c].due
    /\ callers' = [callers EXCEPT ![c].pc = "fetching"]
    /\ issueFetch(c)
    /\ UNCHANGED gateNow
    /\ UNCHANGED outsideGate

\* Time passes.
Tick ==
    /\ gateNow < MIN_REQUEST_INTERVAL_MS + MaxTicks * 1000
    /\ gateNow' = gateNow + 1000
    /\ UNCHANGED <<lastRequestAt, callers, released>>
    /\ UNCHANGED outsideGate


--------------------------------------------------------------------------
(* universeQuotesService.ts and fileCache.ts: the universe quote service.   *)
(* It reads the same clock as the gate (gateNow, in ms).                    *)

QUOTE_TTL_MS == 10 * 60 * 1000

MaxQuoteCalls == 2
MaxRefreshes == 2
MaxFetchingRefreshes == 1
MaxQuoteTicks == 3

\* The clock of this part advances in steps of a third of the TTL.
QuoteClockStep == QUOTE_TTL_MS \div 3

CallIds == 1..MaxQuoteCalls

RefreshIds == 1..MaxRefreshes

\* A close price that is not a finite number.
NotFinite == [n |-> 1, d |-> 0]

\* What Polygon's prev endpoint can answer for one ticker: a response that is not
\* ok, a payload without results, or a first result with close price c, where c is
\* a positive number, zero, a negative number or not a finite number.
PrevResponses ==
    {[ok |-> FALSE, c |-> NULL], [ok |-> TRUE, c |-> NULL]}
        \cup {[ok |-> TRUE, c |-> c] : c \in UpstreamPrices \cup {Num[0], Num[-1], NotFinite}}

\* Number.isFinite(result.c) && result.c > 0
isFinitePositive(c) == c.d # 0 /\ c.n > 0

\* A variant that takes any finite close price.
fetchPolygonPrev_AnyFinite(response) ==
    IF ~response.ok THEN NULL
    ELSE IF response.c = NULL THEN NULL
    ELSE IF response.c.d = 0 THEN NULL
    ELSE [price |-> response.c, asOf |-> <<"upstream">>, source |-> "Polygon prev"]

\* fetchPolygonPrev after its response: the quote, or null.
fetchPolygonPrev(response) ==
    IF ~response.ok THEN NULL
    ELSE IF response.c = NULL THEN NULL
    ELSE IF ~isFinitePositive(response.c) THEN NULL
    ELSE [price |-> response.c, asOf |-> <<"upstream">>, source |-> "Polygon prev"]

\* fetchPolygonGroupedDaily after its response: the quotes of the universe tickers
\* in the payload.
groupedQuotes(result) ==
    [t \in TickerSet |->
        IF result[t] = NULL THEN NULL
        ELSE [price |-> result[t].price, asOf |-> <<"upstream">>, source |-> "Polygon grouped daily"]]

\* A variant whose prices move with the clock.
buildMockQuotes_Clock ==
    [t \in TickerSet |->
        [price |-> RatAdd[mockPrice(t), Num[gateNow \div QuoteClockStep]], asOf |-> <<gateNow>>,
         source |-> "Mock deterministic universe quote"]]

buildMockQuotes ==
    [t \in TickerSet |->
        [price |-> mockPrice(t), asOf |-> <<gateNow>>, source |-> "Mock deterministic universe quote"]]

\* A refresh that has not been started, and the locals of a started one.  The
\* fields from `bulk` on are history: the number of grouped-daily requests issued
\* and of grouped-daily attempts that gave no quote, the tickers fetchPolygonPrev was
\* called for and those a prev request was issued for, the prev responses received,
\* and the quote map the refresh resolved with.
NoRefresh ==
    [pc |-> "none", daysBack |-> 0, k |-> 0, quotes |-> NoQuotes, due |-> 0, fileExpiresAt |-> 0,
     bulk |-> 0, bulkMisses |-> 0, prevCalls |-> <<>>, prevRequests |-> <<>>,
     prevResponses |-> [t \in TickerSet |-> NULL], result |-> NULL]

\* A quote map object: `fetchedAt` and `refresh` say when and by which refresh it
\* was put together.
QuoteMapOf(quotes, rid, t) == [quotes |-> quotes, fetchedAt |-> t, refresh |-> rid]

\* A getUniverseQuotes call that has not been made, and a call: where it stands, the
\* refresh it awaits, and for a call that has returned its value, the clock reading
\* at which the value was chosen and where it came from.
NoQuoteCall ==
    [pc |-> "none", forceRefresh |-> FALSE, awaits |-> NULL, value |-> NULL, at |-> 0, from |-> "none"]

StartedRefreshes == {rid \in RefreshIds : refreshes[rid].pc # "none"}

RunningRefreshes == {rid \in RefreshIds : refreshes[rid].pc \notin {"none", "done"}}

MadeCalls == {c \in CallIds : quoteCalls[c].pc # "none"}

\* fetchRealQuotes from the fallback of the k-th ticker on: each ticker without a
\* quote gets one fetchPolygonPrev call.  Without the credential the call throws in
\* getPolygonApiKey before any request and `.catch(() => null)` turns that into null.
RECURSIVE prevLoop(_, _)
prevLoop(r, k) ==
    LET missing == missingFrom(r.quotes, k)
        j == CHOOSE j \in missing : \A i \in missing : j <= i
    IN IF missing = {} THEN [r EXCEPT !.pc = "fetched"]
       ELSE IF ~polygonApiKey
            THEN prevLoop([r EXCEPT !.prevCalls = Append(@, Tickers[j])], j + 1)
            ELSE [r EXCEPT !.pc = "callPrev", !.k = j, !.prevCalls = Append(@, Tickers[j])]

\* fetchRealQuotes from the head of its grouped-daily loop: up to MaxDaysBack
\* attempts; an attempt without the credential throws in getPolygonApiKey before any
\* request, and the loop's catch moves to the next date.
RECURSIVE groupedLoop(_)
groupedLoop(r) ==
    IF r.daysBack > MaxDaysBack THEN prevLoop(r, 1)
    ELSE IF ~polygonApiKey
         THEN groupedLoop([r EXCEPT !.daysBack = @ + 1, !.bulkMisses = @ + 1])
         ELSE [r EXCEPT !.pc = "callGrouped"]

fetchRealQuotes == groupedLoop([NoRefresh EXCEPT !.daysBack = 1])

\* The request a refresh hands to polygonRateLimitedFetch has been issued.
issued(r) ==
    IF r.pc = "callGrouped" THEN [r EXCEPT !.pc = "grouped", !.bulk = @ + 1]
    ELSE [r EXCEPT !.pc = "prev", !.prevRequests = Append(@, Tickers[r.k])]

\* refreshQuotes up to its next await.  A refresh that calls
\* polygonRateLimitedFetch sleeps or issues its request, as the gate decides; one
\* whose quotes are fetched stores them in memory and enters writeFileCache, which
\* awaits the creation of the cache directory.
refreshQuotesStep(rid, r) ==
    LET elapsed == gateNow - lastRequestAt
        calling == r.pc \in {"callGrouped", "callPrev"}
        sleeps == calling /\ elapsed < MIN_REQUEST_INTERVAL_MS
        map == QuoteMapOf(r.quotes, rid, gateNow)
    IN /\ refreshes' = [refreshes EXCEPT ![rid] =
              IF r.pc = "fetched" THEN [r EXCEPT !.pc = "mkdir", !.result = map]
              ELSE IF sleeps
                   THEN [r EXCEPT !.pc = IF r.pc = "callGrouped" THEN "groupedWait" ELSE "prevWait",
                                  !.due = gateNow + (MIN_REQUEST_INTERVAL_MS - elapsed)]
                   ELSE issued(r)]
       /\ cacheEntry' = IF r.pc = "fetched"
                        THEN [quotes |-> map, expiresAt |-> gateNow + QUOTE_TTL_MS]
                        ELSE cacheEntry
       /\ IF calling /\ ~sleeps THEN issueFetch(rid) ELSE UNCHANGED <<lastRequestAt, released>>

\* refreshQuotes(): the refresh gets the next free id.
refreshQuotes(rid) ==
    refreshQuotesStep(rid, IF isRealMode THEN fetchRealQuotes
                           ELSE [NoRefresh EXCEPT !.pc = "fetched", !.quotes = buildMockQuotes])

\* Lines 219-225 of getUniverseQuotes: start a refresh, publish its promise and
\* await it.
startRefresh(c, call) ==
    LET rid == Cardinality(StartedRefreshes) + 1
    IN /\ rid \in RefreshIds
       /\ refreshQuotes(rid)
       /\ inFlightRefresh' = <<rid>>
       /\ quoteCalls' = [quoteCalls EXCEPT ![c] = [call EXCEPT !.pc = "refresh", !.awaits = <<rid>>]]

\* The synchronous head of getUniverseQuotes({ forceRefresh }).
getUniverseQuotes(c, forceRefresh) ==
    LET call == [NoQuoteCall EXCEPT !.forceRefresh = forceRefresh]
    IN IF ~forceRefresh /\ cacheEntry # NULL /\ cacheEntry.expiresAt > gateNow
       THEN /\ quoteCalls' = [quoteCalls EXCEPT ![c] =
                   [call EXCEPT !.pc = "done", !.value = cacheEntry.quotes,
                                !.at = gateNow, !.from = "memory"]]
            /\ UNCHANGED <<cacheEntry, inFlightRefresh, refreshes, lastRequestAt, released>>
       ELSE IF ~forceRefresh /\ inFlightRefresh # NULL
       THEN /\ quoteCalls' = [quoteCalls EXCEPT ![c] =
                   [call EXCEPT !.pc = "joined", !.awaits = inFlightRefresh]]
            /\ UNCHANGED <<cacheEntry, inFlightRefresh, refreshes, lastRequestAt, released>>
       ELSE IF ~forceRefresh
       THEN /\ quoteCalls' = [quoteCalls EXCEPT ![c] = [call EXCEPT !.pc = "readFileCache"]]
            /\ UNCHANGED <<cacheEntry, inFlightRefresh, refreshes, lastRequestAt, released>>
       ELSE startRefresh(c, call)

\* Whether refreshes of this process talk to Polygon.
fetchesUpstream == isRealMode /\ polygonApiKey

\* The refreshes explored in one behaviour: fewer where each refresh is a sequence
\* of upstream requests.
RefreshBudget == IF fetchesUpstream THEN MaxFetchingRefreshes ELSE MaxRefreshes

\* Calls that may still have to start a refresh.
MayStartRefresh == {c \in CallIds : quoteCalls[c].pc = "readFileCache"}

\* A caller invokes getUniverseQuotes.  A call is only made while the budget has
\* a refresh left for every call that may need one.
GetUniverseQuotes ==
    /\ \E c \in CallIds, forceRefresh \in BOOLEAN :
          /\ quoteCalls[c].pc = "none"
          /\ \A b \in CallIds : b < c => quoteCalls[b].pc # "none"
          /\ Cardinality(StartedRefreshes) + Cardinality(MayStartRefresh) < RefreshBudget
          /\ getUniverseQuotes(c, forceRefresh)
    /\ UNCHANGED <<cacheVars, trafficVars, routeVars, pureVars, gateNow, callers, fileCache, polygonApiKey>>

\* readFileCache: the value of an entry that is on disk and has not expired.
readFileCache ==
    IF fileCache = NULL THEN NULL
    ELSE IF fileCache.expiresAt <= gateNow THEN NULL
    ELSE fileCache.value

\* The file read of a non-forced call completes (lines 211-216, then 219-225).
ReadFileCacheDone ==
    /\ \E c \in CallIds :
          /\ quoteCalls[c].pc = "readFileCache"
          /\ LET fromFile == readFileCache
             IN IF fromFile # NULL
                THEN /\ cacheEntry' = [quotes |-> fromFile, expiresAt |-> gateNow + QUOTE_TTL_MS]
                     /\ quoteCalls' = [quoteCalls EXCEPT ![c] =
                            [@ EXCEPT !.pc = "done", !.value = fromFile,
                                      !.at = gateNow, !.from = "disk"]]
                     /\ UNCHANGED <<inFlightRefresh, refreshes, lastRequestAt, released>>
                ELSE startRefresh(c, quoteCalls[c])
    /\ UNCHANGED <<cacheVars, trafficVars, routeVars, pureVars, gateNow, callers, fileCache, polygonApiKey>>

\* The gate's timer of a sleeping refresh fires: its request is issued.
GateTimerDone ==
    /\ \E rid \in RefreshIds :
          /\ refreshes[rid].pc \in {"groupedWait", "prevWait"}
          /\ gateNow >= refreshes[rid].due
          /\ refreshes' = [refreshes EXCEPT ![rid] =
                 issued([@ EXCEPT !.pc = IF @ = "groupedWait" THEN "callGrouped" ELSE "callPrev"])]
          /\ issueFetch(rid)
    /\ UNCHANGED <<cacheVars, trafficVars, routeVars, pureVars, gateNow, callers, cacheEntry, inFlightRefresh, fileCache,
                   polygonApiKey, quoteCalls>>

\* A grouped-daily request completes: with quotes for some universe tickers the
\* loop breaks, otherwise (failure, or no universe ticker in the payload) the next
\* date is tried.
\* A variant that goes on to the next date after a payload with quotes.
QuoteGroupedDone_KeepsTrying ==
    /\ \E rid \in RefreshIds, outcome \in GroupedOutcomes :
          /\ refreshes[rid].pc = "grouped"
          /\ LET r == refreshes[rid]
                 got == ~outcome.threw /\ outcome.result # NoQuotes
             IN refreshQuotesStep(rid,
                    IF got THEN groupedLoop([r EXCEPT !.quotes = groupedQuotes(outcome.result),
                                                      !.daysBack = @ + 1])
                    ELSE groupedLoop([r EXCEPT !.daysBack = @ + 1, !.bulkMisses = @ + 1]))
    /\ UNCHANGED <<cacheVars, trafficVars, routeVars, pureVars, gateNow, callers, inFlightRefresh, fileCache, polygonApiKey, quoteCalls>>

QuoteGroupedDone ==
    /\ \E rid \in RefreshIds, outcome \in GroupedOutcomes :
          /\ refreshes[rid].pc = "grouped"
          /\ LET r == refreshes[rid]
                 got == ~outcome.threw /\ outcome.result # NoQuotes
             IN refreshQuotesStep(rid,
                    IF got THEN prevLoop([r EXCEPT !.quotes = groupedQuotes(outcome.result)], 1)
                    ELSE groupedLoop([r EXCEPT !.daysBack = @ + 1, !.bulkMisses = @ + 1]))
    /\ UNCHANGED <<cacheVars, trafficVars, routeVars, pureVars, gateNow, callers, inFlightRefresh, fileCache, polygonApiKey, quoteCalls>>

\* A prev request completes: the ticker gets its quote, or none.
QuotePrevDone ==
    /\ \E rid \in RefreshIds, response \in PrevResponses :
          /\ refreshes[rid].pc = "prev"
          /\ LET r == refreshes[rid]
                 t == Tickers[r.k]
                 quote == fetchPolygonPrev(response)
                 nr == [r EXCEPT !.prevResponses[t] = <<response>>,
                                 !.quotes = IF quote = NULL THEN @ ELSE [@ EXCEPT ![t] = quote]]
             IN refreshQuotesStep(rid, prevLoop(nr, r.k + 1))
    /\ UNCHANGED <<cacheVars, trafficVars, routeVars, pureVars, gateNow, callers, inFlightRefresh, fileCache, polygonApiKey, quoteCalls>>

\* The promise of refresh rid resolves: every call awaiting it returns its map, and
\* the `finally` of the call that started it clears inFlightRefresh.
resolveRefresh(rid) ==
    /\ refreshes' = [refreshes EXCEPT ![rid] = [@ EXCEPT !.pc = "done"]]
    /\ quoteCalls' = [c \in CallIds |->
           IF quoteCalls[c].awaits = <<rid>> /\ quoteCalls[c].pc \in {"refresh", "joined"}
           THEN [quoteCalls[c] EXCEPT !.pc = "done", !.value = refreshes[rid].result,
                                      !.at = gateNow,
                                      !.from = quoteCalls[c].pc]
           ELSE quoteCalls[c]]
    /\ inFlightRefresh' = NULL

\* writeFileCache after ensureCacheDir: the entry's expiry is taken now and the
\* write is started; a failure is swallowed and the refresh resolves.
MkdirDone ==
    /\ \E rid \in RefreshIds, ok \in BOOLEAN :
          /\ refreshes[rid].pc = "mkdir"
          /\ IF ok
             THEN /\ refreshes' = [refreshes EXCEPT ![rid] =
                         [@ EXCEPT !.pc = "writeFile", !.fileExpiresAt = gateNow + QUOTE_TTL_MS]]
                  /\ UNCHANGED <<quoteCalls, inFlightRefresh>>
             ELSE resolveRefresh(rid)
    /\ UNCHANGED <<cacheVars, trafficVars, routeVars, pureVars, gateVars, cacheEntry, fileCache, polygonApiKey>>

\* fs.writeFile completes: on success the entry is on disk; either way the refresh
\* resolves.
WriteFileDone ==
    /\ \E rid \in RefreshIds, ok \in BOOLEAN :
          /\ refreshes[rid].pc = "writeFile"
          /\ fileCache' = IF ok
                          THEN [expiresAt |-> refreshes[rid].fileExpiresAt,
                                value |-> refreshes[rid].result]
                          ELSE fileCache
          /\ resolveRefresh(rid)
    /\ UNCHANGED <<cacheVars, trafficVars, routeVars, pureVars, gateVars, cacheEntry, polygonApiKey>>

\* Time passes.
QuoteTick ==
    /\ gateNow < MaxQuoteTicks * QuoteClockStep
    /\ gateNow' = gateNow + QuoteClockStep
    /\ UNCHANGED <<cacheVars, trafficVars, routeVars, pureVars, lastRequestAt, callers, released, quoteVars>>

--------------------------------------------------------------------------
(* The other two issuers of Polygon requests in the server process: the      *)
(* quote step of dataCache.ts and the Polygon stock provider.  They read the *)
(* same clock as the gate.                                                   *)

MaxDirectFetches == 2
MaxProviderCalls == 2

\* fetchPolygonGroupedDaily and fetchPolygonPrevSingle of dataCache.ts: a real-mode
\* run issues its request with fetch(url), whenever it gets there.
fetchPolygonDirect ==
    /\ isRealMode
    /\ Len(directFetches) < MaxDirectFetches
    /\ directFetches' = Append(directFetches, gateNow)
    /\ UNCHANGED <<cacheVars, gateVars, quoteVars, routeVars, pureVars, providerLastRequestAt, providerCallers,
                   providerReleased>>

\* lastRequestAt = Date.now(); return fetch(url) of the stock provider.
providerIssueFetch ==
    /\ providerLastRequestAt' = gateNow
    /\ providerReleased' = Append(providerReleased, gateNow)

\* A call of the stock provider's rateLimitedFetch, up to its await of the timer
\* or, when it need not wait, to fetch(url).
rateLimitedFetch ==
    /\ Len(providerCallers) < MaxProviderCalls
    /\ LET elapsed == gateNow - providerLastRequestAt
       IN  IF elapsed < MIN_REQUEST_INTERVAL_MS
           THEN /\ providerCallers' = Append(providerCallers,
                        [pc |-> "waiting", due |-> gateNow + (MIN_REQUEST_INTERVAL_MS - elapsed)])
                /\ UNCHANGED <<providerLastRequestAt, providerReleased>>
           ELSE /\ providerCallers' = Append(providerCallers, [pc |-> "fetching", due |-> gateNow])
                /\ providerIssueFetch
    /\ UNCHANGED <<cacheVars, gateVars, quoteVars, routeVars, pureVars, directFetches>>

\* The timer of a waiting caller of the stock provider fires.
ProviderTimerFired(c) ==
    /\ providerCallers[c].pc = "waiting"
    /\ gateNow >= providerCallers[c].due
    /\ providerCallers' = [providerCallers EXCEPT ![c].pc = "fetching"]
    /\ providerIssueFetch
    /\ UNCHANGED <<cacheVars, gateVars, quoteVars, routeVars, pureVars, directFetches>>

--------------------------------------------------------------------------
(* The enrichment cache as a whole *)

CacheInit ==
    /\ state = [status |-> "cold", tickers |-> <<>>, lastUpdated |-> NULL, error |-> NULL]
    /\ preloadInFlight = NULL
    /\ liveCikMap = NULL
    /\ liveCikMapInFlight = NULL
    /\ runs = [id \in RunIds |-> NoRun]
    /\ dataMode \in {"mock", "real"}
    /\ now = 0
    /\ ret = NULL

\* lastRequestAt starts at 0 and Date.now() is far more than the interval past it.
GateInit ==
    /\ gateNow = MIN_REQUEST_INTERVAL_MS
    /\ lastRequestAt = 0
    /\ callers = <<>>
    /\ released = <<>>

\* The quote service of a process that has served no quote call yet.
QuoteIdle ==
    /\ cacheEntry = NULL
    /\ inFlightRefresh = NULL
    /\ quoteCalls = [c \in CallIds |-> NoQuoteCall]
    /\ refreshes = [rid \in RefreshIds |-> NoRefresh]

\* No Polygon request has been made outside the gate.
TrafficIdle ==
    /\ directFetches = <<>>
    /\ providerLastRequestAt = 0
    /\ providerCallers = <<>>
    /\ providerReleased = <<>>

--------------------------------------------------------------------------
(* dataCache.ts: TTM normalisation of a series of SEC fact points *)

\* A FactPoint is [fp, fy, start, end, val]: fp the period tag ("" when absent),
\* fy, start, end and val NULL when absent; a date is the number of its day (what
\* asTimestamp(value) / 86_400_000 gives), val a finite number.

\* typeof p.val === 'number' && Number.isFinite(p.val) && !!p.end
hasValidValue(p) == p.val # NULL /\ p.end # NULL

periodLengthDays(p) ==
    IF p.start = NULL \/ p.end = NULL THEN NULL ELSE <<p.end[1] - p.start[1]>>

\* isStandaloneQuarter accepting a period of any length.
isStandaloneQuarter_AnyLength(p) == p.fp \in {"Q1", "Q2", "Q3", "Q4"}

isStandaloneQuarter(p) ==
    /\ p.fp \in {"Q1", "Q2", "Q3", "Q4"}
    /\ LET days == periodLengthDays(p)
       IN  days = NULL \/ (days[1] >= 45 /\ days[1] <= 120)

\* p put into a sequence sorted by end date, newest first, behind the points
\* that end on the same day.
RECURSIVE insertByEnd(_, _)
insertByEnd(sorted, p) ==
    IF sorted = <<>> THEN <<p>>
    ELSE IF Head(sorted).end[1] >= p.end[1] THEN <<Head(sorted)>> \o insertByEnd(Tail(sorted), p)
    ELSE <<p>> \o sorted

\* .sort((a, b) => asTimestamp(b.end) - asTimestamp(a.end)): a stable sort.
RECURSIVE sortByEndDesc(_)
sortByEndDesc(points) ==
    IF points = <<>> THEN <<>>
    ELSE insertByEnd(sortByEndDesc(SubSeq(points, 1, Len(points) - 1)), points[Len(points)])

\* `${p.fy ?? ''}-${p.fp ?? ''}-${p.end}`
keyOf(p) == <<p.fy, p.fp, p.end>>

\* The loop over the sorted quarters: the first point of each key, at most four.
RECURSIVE uniqueQuarters(_, _, _)
uniqueQuarters(quarters, seen, unique) ==
    IF quarters = <<>> \/ Len(unique) = 4 THEN unique
    ELSE IF keyOf(Head(quarters)) \in seen THEN uniqueQuarters(Tail(quarters), seen, unique)
    ELSE uniqueQuarters(Tail(quarters), seen \cup {keyOf(Head(quarters))},
                        Append(unique, Head(quarters)))

RECURSIVE sumVals(_)
sumVals(points) == IF points = <<>> THEN 0 ELSE Head(points).val[1] + sumVals(Tail(points))

\* The local `unique` of computeTtmFromQuarters: the points it sums when there are
\* four of them.
uniqueOf(points) ==
    LET qualifies(p) == isStandaloneQuarter(p) /\ hasValidValue(p)
    IN  uniqueQuarters(sortByEndDesc(SelectSeq(points, qualifies)), {}, <<>>)

computeTtmFromQuarters(points) ==
    LET qualifies(p) == isStandaloneQuarter(p) /\ hasValidValue(p)
        quarters == sortByEndDesc(SelectSeq(points, qualifies))
        unique == uniqueQuarters(quarters, {}, <<>>)
    IN  IF Len(unique) < 4 THEN NULL
        ELSE IF unique[1].end[1] - unique[4].end[1] > 430 THEN NULL
        ELSE <<sumVals(unique)>>

computeAnnualFallback(points) ==
    LET isAnnual(p) == p.fp = "FY" /\ hasValidValue(p)
        annual == sortByEndDesc(SelectSeq(points, isAnnual))
    IN  IF annual = <<>> THEN NULL ELSE annual[1].val

\* computeTtmFromQuarters(points) ?? computeAnnualFallback(points)
computeTtm(points) ==
    LET ttm == computeTtmFromQuarters(points)
    IN  IF ttm # NULL THEN ttm ELSE computeAnnualFallback(points)

--------------------------------------------------------------------------
(* dataCache.ts: the series of a metric in a company-facts payload *)

\* A units object is NULL (the concept is absent) or the sequence of its entries
\* [unit, series] in insertion order, the order of Object.values.

\* The series of the first entry of `entries` for unit u (undefined: NULL).
RECURSIVE seriesOf(_, _)
seriesOf(entries, u) ==
    IF entries = <<>> THEN NULL
    ELSE IF Head(entries).unit = u THEN <<Head(entries).series>>
    ELSE seriesOf(Tail(entries), u)

\* Object.values(units).find((r) => r.length > 0) ?? []
RECURSIVE firstNonEmpty(_)
firstNonEmpty(entries) ==
    IF entries = <<>> THEN <<>>
    ELSE IF Len(Head(entries).series) > 0 THEN Head(entries).series
    ELSE firstNonEmpty(Tail(entries))

\* The loop of pickUnit over the preferred units, then its last line.
RECURSIVE pickPreferred(_, _)
pickPreferred(units, preferred) ==
    IF preferred = <<>> THEN firstNonEmpty(units)
    ELSE LET r == seriesOf(units, Head(preferred))
         IN  IF r # NULL /\ Len(r[1]) > 0 THEN r[1]
             ELSE pickPreferred(units, Tail(preferred))

pickUnit(units, preferred) ==
    IF units = NULL THEN <<>> ELSE pickPreferred(units, preferred)

\* The loop of getFactPoints over the concepts; gaap[concept]?.units is
\* gaap[concept].
RECURSIVE conceptLoop(_, _, _)
conceptLoop(gaap, concepts, units) ==
    IF concepts = <<>> THEN <<>>
    ELSE LET pts == pickUnit(gaap[Head(concepts)], units)
         IN  IF Len(pts) > 0 THEN pts ELSE conceptLoop(gaap, Tail(concepts), units)

getFactPoints(gaap, concepts, units) ==
    IF gaap = NULL THEN <<>> ELSE conceptLoop(gaap, concepts, units)

\* The concept names and the units parseCompanyFacts asks for, per metric.
MetricConcepts ==
    [revenue |-> <<"Revenues", "RevenueFromContractWithCustomerExcludingAssessedTax",
                   "SalesRevenueNet">>,
     opIncome |-> <<"OperatingIncomeLoss">>,
     eps |-> <<"EarningsPerShareDiluted", "EarningsPerShareBasic">>,
     shares |-> <<"CommonStockSharesOutstanding">>]

MetricUnits ==
    [revenue |-> <<"USD">>, opIncome |-> <<"USD">>, eps |-> <<"USD/shares">>,
     shares |-> <<"shares">>]

--------------------------------------------------------------------------
(* universeQuotesService.ts and dataCache.ts: the date of a bulk attempt *)

\* A date is the number of its day, day 0 a Sunday; getDay() is 0 on a Sunday and
\* 6 on a Saturday.  The server's time zone is UTC, so that toISOString() names the
\* day getDay() looked at.
getDay(date) == date % 7

\* while (date.getDay() === 0 || date.getDay() === 6) date.setDate(date.getDate() - 1)
RECURSIVE walkPastWeekend(_)
walkPastWeekend(date) ==
    IF getDay(date) = 0 \/ getDay(date) = 6 THEN walkPastWeekend(date - 1) ELSE date

recentTradingDate(today, daysBack) == walkPastWeekend(today - daysBack)

--------------------------------------------------------------------------
(* app/api/ticker/route.ts: GET /api/ticker *)

\* Requests to the route in one behaviour.
MaxRouteCalls == 1

\* A symbol outside the universe.
OutsideTicker == "ZZZZ"

\* The ticker parameter after trim().toUpperCase(): empty, a universe ticker or not.
RouteTickers == {"", Tickers[1], OutsideTicker}

\* What fundamentalsProvider.getFundamentals resolves to.
RawFundamentals ==
    {[epsTtm |-> eps, revenueTtm |-> Num[400], revenueGrowthYoY |-> Num[10],
      operatingMargin |-> Num[20], sharesOutstanding |-> Num[10], asOf |-> <<1>>,
      peTtm |-> Num[30], marketCap |-> Num[1000], ps |-> Rat[5, 2]] :
        eps \in {NULL, Rat[25, 4]}}

\* The two provider calls of Promise.all: getFundamentals throws or resolves,
\* getLatestQuote(...).catch(() => null) gives a quote or null.
OnDemandOutcomes ==
    {[threw |-> TRUE, raw |-> NULL, quote |-> NULL]}
        \cup {[threw |-> FALSE, raw |-> f, quote |-> q] :
                 f \in RawFundamentals, q \in {NULL, [price |-> Num[150]]}}

\* The EnrichedTicker the route synthesises from the two provider results.
onDemandRecord(ticker, fundamentalsRaw, quote) ==
    LET latestPrice == IF quote = NULL THEN NULL ELSE quote.price
        peTtm ==
            IF latestPrice # NULL /\ fundamentalsRaw.epsTtm # NULL /\ fundamentalsRaw.epsTtm.n # 0
            THEN RatDiv[latestPrice, fundamentalsRaw.epsTtm] ELSE fundamentalsRaw.peTtm
        marketCap ==
            IF latestPrice # NULL /\ fundamentalsRaw.sharesOutstanding # NULL
            THEN RatMul[latestPrice, fundamentalsRaw.sharesOutstanding]
            ELSE fundamentalsRaw.marketCap
        ps ==
            IF marketCap # NULL /\ fundamentalsRaw.revenueTtm # NULL
                               /\ fundamentalsRaw.revenueTtm.n # 0
            THEN RatDiv[marketCap, fundamentalsRaw.revenueTtm] ELSE fundamentalsRaw.ps
        score ==
            calculateValueScore([peTtm |-> peTtm, ps |-> ps,
                                 revenueGrowthYoY |-> fundamentalsRaw.revenueGrowthYoY,
                                 operatingMargin |-> fundamentalsRaw.operatingMargin])
    IN  [ticker |-> ticker, companyName |-> NULL, latestPrice |-> latestPrice,
         marketCap |-> marketCap, peTtm |-> peTtm, ps |-> ps,
         epsTtm |-> fundamentalsRaw.epsTtm, revenueTtm |-> fundamentalsRaw.revenueTtm,
         revenueGrowthYoY |-> fundamentalsRaw.revenueGrowthYoY,
         operatingMargin |-> fundamentalsRaw.operatingMargin, valueScore |-> score.total,
         scoreBreakdown |-> score.breakdown, fundamentalsAsOf |-> fundamentalsRaw.asOf]

\* snapshot.tickers.find((t) => t.ticker === ticker)
findCached(tickers, ticker) ==
    LET hits == {i \in 1..Len(tickers) : tickers[i].ticker = ticker}
    IN  IF hits = {} THEN NULL ELSE tickers[CHOOSE i \in hits : \A j \in hits : i <= j]

\* The route warming the cache whenever it is not 'ready'.
warms_UnlessReady(snapshot) == snapshot.status # "ready"

\* if (snapshot.status === 'cold') { void triggerPreload(false); }
warms(snapshot) == snapshot.status = "cold"

\* A request the route has answered.
Responded(ticker, forceRefresh, warmed, httpStatus, body) ==
    [pc |-> "responded", ticker |-> ticker, forceRefresh |-> forceRefresh, warmed |-> warmed,
     httpStatus |-> httpStatus, body |-> body]

\* GET up to its return or to its await of the two provider calls.  `warmed`
\* records whether the request called triggerPreload.
TickerGET(ticker, forceRefresh) ==
    /\ Len(routeCalls) < MaxRouteCalls
    /\ IF ticker = ""
       THEN /\ routeCalls' =
                 Append(routeCalls, Responded(ticker, forceRefresh, FALSE, 400,
                                              [error |-> "Missing ticker parameter."]))
            /\ UNCHANGED <<state, preloadInFlight, runs, ret>>
       ELSE LET snapshot == snapshotOf(state)
                cached == findCached(snapshot.tickers, ticker)
            IN  /\ IF warms(snapshot)
                   THEN IF state.status = "ready" THEN returnResolved(FALSE)
                        ELSE IF preloadInFlight # NULL THEN returnInFlight(FALSE)
                        ELSE startPreload(FALSE)
                   ELSE /\ ret' = [op |-> "getCacheSnapshot", arg |-> NULL, value |-> snapshot]
                        /\ UNCHANGED <<state, preloadInFlight, runs>>
                /\ routeCalls' =
                      Append(routeCalls,
                             IF snapshot.status = "loading" /\ ~forceRefresh
                             THEN Responded(ticker, forceRefresh, warms(snapshot), 202,
                                            [status |-> "loading", ticker |-> ticker])
                             ELSE IF /\ ~forceRefresh
                                     /\ snapshot.status \in {"ready", "error"}
                                     /\ cached # NULL
                             THEN Responded(ticker, forceRefresh, warms(snapshot), 200,
                                            [status |-> "ready", ticker |-> cached])
                             ELSE [pc |-> "onDemand", ticker |-> ticker,
                                   forceRefresh |-> forceRefresh, warmed |-> warms(snapshot),
                                   httpStatus |-> 0, body |-> NULL])
    /\ UNCHANGED <<liveCikMap, liveCikMapInFlight, dataMode, now>>
    /\ UNCHANGED <<gateVars, quoteVars, trafficVars, pureVars>>

\* Both provider calls of request i have settled: the route answers with the
\* record it computes, or with the error of getFundamentals.
OnDemandDone(i) ==
    /\ i \in 1..Len(routeCalls)
    /\ routeCalls[i].pc = "onDemand"
    /\ \E o \in OnDemandOutcomes :
          LET c == routeCalls[i]
          IN  routeCalls' =
                  [routeCalls EXCEPT ![i] =
                      IF o.threw
                      THEN Responded(c.ticker, c.forceRefresh, c.warmed, 502,
                                     [error |-> "Could not load ticker data."])
                      ELSE Responded(c.ticker, c.forceRefresh, c.warmed, 200,
                                     [status |-> "ready",
                                      ticker |-> onDemandRecord(c.ticker, o.raw, o.quote)])]
    /\ UNCHANGED <<cacheVars, gateVars, quoteVars, trafficVars, pureVars>>

\* No request has reached the ticker route.
RouteIdle == routeCalls = <<>>

\* No pure function is being applied.
PureIdle == input = NULL /\ output = NULL

Init ==
    /\ CacheInit /\ GateInit /\ QuoteIdle /\ TrafficIdle /\ RouteIdle /\ PureIdle
    /\ fileCache = NULL /\ polygonApiKey = TRUE

Next ==
    \/ TriggerPreload
    \/ getCacheSnapshot
    \/ \E id \in RunIds : LoadSecCikMapDone(id)
    \/ \E id \in RunIds : GroupedDailyDone(id)
    \/ \E id \in RunIds : PrevSingleDone(id)
    \/ \E id \in RunIds : LiveCikMapDone(id)
    \/ \E id \in RunIds : SecFactsDone(id)

Spec == Init /\ [][Next]_vars

\* Every awaited file read and network response eventually completes or fails.
Continuation ==
    \E id \in RunIds :
        \/ LoadSecCikMapDone(id)
        \/ GroupedDailyDone(id)
        \/ PrevSingleDone(id)
        \/ LiveCikMapDone(id)
        \/ SecFactsDone(id)

FairSpec == Spec /\ WF_vars(Continuation)

--------------------------------------------------------------------------
(* The fetch gate as a whole *)

GateNext ==
    \/ polygonRateLimitedFetch
    \/ \E c \in 1..MaxCalls : c <= Len(callers) /\ TimerFired(c)
    \/ Tick

GateSpec == Init /\ [][GateNext]_vars

--------------------------------------------------------------------------
(* The universe quote service as a whole *)

\* An entry a previous process of the server left on disk: written at time 0, so
\* that it expires QUOTE_TTL_MS later.
PriorFileEntry ==
    [expiresAt |-> QUOTE_TTL_MS,
     value |-> QuoteMapOf([t \in TickerSet |->
                              [price |-> mockPrice(t), asOf |-> <<0>>,
                               source |-> "Mock deterministic universe quote"]], 0, 0)]

\* The process starts with or without the credential, and with or without a disk
\* entry from a previous process.
QuoteServiceInit ==
    /\ QuoteIdle
    /\ polygonApiKey \in BOOLEAN
    /\ fileCache \in {NULL, PriorFileEntry}

\* The service where refreshes make no upstream request (mock mode, or real mode
\* without the credential), over several TTLs.
QuoteInit == CacheInit /\ GateInit /\ QuoteServiceInit /\ TrafficIdle /\ RouteIdle /\ PureIdle /\ ~fetchesUpstream

QuoteNext ==
    \/ GetUniverseQuotes
    \/ ReadFileCacheDone
    \/ MkdirDone
    \/ WriteFileDone
    \/ QuoteTick

QuoteSpec == QuoteInit /\ [][QuoteNext]_vars

\* The service in real mode, over the time the requests of a refresh take.
MaxIntervals == 8

\* Time passes, one gate interval at a time.
IntervalTick ==
    /\ gateNow < (MaxIntervals + 1) * MIN_REQUEST_INTERVAL_MS
    /\ gateNow' = gateNow + MIN_REQUEST_INTERVAL_MS
    /\ UNCHANGED <<cacheVars, trafficVars, routeVars, pureVars, lastRequestAt, callers, released, quoteVars>>

FetchInit == CacheInit /\ GateInit /\ QuoteServiceInit /\ TrafficIdle /\ RouteIdle /\ PureIdle /\ isRealMode

FetchNext ==
    \/ GetUniverseQuotes
    \/ ReadFileCacheDone
    \/ GateTimerDone
    \/ QuoteGroupedDone
    \/ QuotePrevDone
    \/ MkdirDone
    \/ WriteFileDone
    \/ IntervalTick

FetchSpec == FetchInit /\ [][FetchNext]_vars

--------------------------------------------------------------------------
(* The Polygon requests of the process as a whole: the callers of the       *)
(* shared gate, the quote step of dataCache.ts and the stock provider.      *)

TrafficNext ==
    \/ polygonRateLimitedFetch
    \/ \E c \in 1..MaxCalls : c <= Len(callers) /\ TimerFired(c)
    \/ fetchPolygonDirect
    \/ rateLimitedFetch
    \/ \E c \in 1..MaxProviderCalls : c <= Len(providerCallers) /\ ProviderTimerFired(c)
    \/ IntervalTick

TrafficInit == Init /\ isRealMode

TrafficSpec == TrafficInit /\ [][TrafficNext]_vars


--------------------------------------------------------------------------
(* The enrichment cache with the ticker route in front of it *)

\* Refreshes in one behaviour of the route's specification.
MaxRouteRuns == 1

\* The step leaves at most MaxRouteRuns refreshes started.
RouteBudget == Cardinality({id \in RunIds : runs'[id].pc # "none"}) <= MaxRouteRuns

RouteNext ==
    /\ \/ Next
       \/ \E ticker \in RouteTickers, forceRefresh \in BOOLEAN : TickerGET(ticker, forceRefresh)
       \/ \E i \in 1..MaxRouteCalls : OnDemandDone(i)
    /\ RouteBudget

RouteSpec == Init /\ [][RouteNext]_vars

--------------------------------------------------------------------------
(* Functions applied to arguments drawn from bounded sets *)

\* Everything but `input` and `output` at rest.
PureBase ==
    /\ CacheInit /\ GateInit /\ QuoteIdle /\ TrafficIdle /\ RouteIdle
    /\ fileCache = NULL /\ polygonApiKey = TRUE /\ dataMode = "real"

outsidePure == <<cacheVars, gateVars, quoteVars, trafficVars, routeVars>>

\* The facts parseCompanyFacts can hand to the loop of enrichAllTickers: each of
\* EPS, revenue and shares missing or present, a zero or a loss included.
EnrichFacts ==
    {[epsTtm |-> eps, revenueTtm |-> rev, revenueGrowthYoY |-> Rat[28, 10],
      operatingMargin |-> Rat[301, 10], sharesOutstanding |-> sh, asOf |-> <<1>>] :
        eps \in {NULL, Num[0], Rat[25, 4], Num[-2]},
        rev \in {NULL, Num[0], Num[400]},
        sh \in {NULL, Num[10]}}

EnrichInputs ==
    [ticker : TickerSet, price : {NULL, Num[150]}, seeded : BOOLEAN, facts : EnrichFacts]

\* The body of the loop of enrichAllTickers for input.ticker.
EnrichTicker ==
    /\ input # NULL /\ output = NULL
    /\ output' =
          enrichTicker(input.ticker,
                       [kind |-> "object", keys |-> IF input.seeded THEN {input.ticker} ELSE {}],
                       [u \in TickerSet |->
                           IF input.price = NULL THEN NULL ELSE [price |-> input.price]],
                       input.facts)
    /\ UNCHANGED input
    /\ UNCHANGED outsidePure

EnrichInit == PureBase /\ input \in EnrichInputs /\ output = NULL

EnrichSpec == EnrichInit /\ [][EnrichTicker]_vars

\* The values a scorer input takes: missing, a loss, zero, the pivots of the four
\* formulas, values between them and values beyond them.
ScoreGrid ==
    {NULL, Num[-5], Num[0], Num[1], Rat[11, 2], Num[10], Num[20], Num[25], Num[40], Num[1000]}

ScoreInputs ==
    [peTtm : ScoreGrid, ps : ScoreGrid, revenueGrowthYoY : ScoreGrid, operatingMargin : ScoreGrid]

\* calculateValueScore of lib/valueScore.ts applied to the input.
CalculateValueScore ==
    /\ output.lib = NULL
    /\ output' = [output EXCEPT !.lib = calculateValueScore(input)]
    /\ UNCHANGED input
    /\ UNCHANGED outsidePure

\* calculateValueScore of scoring/calculateValueScore.ts applied to the input.
ScoringCalculateValueScore ==
    /\ output.scoring = NULL
    /\ output' = [output EXCEPT !.scoring = scoringCalculateValueScore(input)]
    /\ UNCHANGED input
    /\ UNCHANGED outsidePure

ScoreInit ==
    PureBase /\ input \in ScoreInputs /\ output = [lib |-> NULL, scoring |-> NULL]

ScoreNext == CalculateValueScore \/ ScoringCalculateValueScore

ScoreSpec == ScoreInit /\ [][ScoreNext]_vars

\* Half-steps of the sub-score arguments in SubScoreGrid: up to MaxHalves/2.
MaxHalves == 90

\* The values a sub-score argument takes: missing, every half from -2 to 45 and
\* a value far beyond the clamps.
SubScoreGrid == {NULL} \cup {Rat[n, 2] : n \in -4..MaxHalves} \cup {Num[1000]}

SubScoreInputs == [a : SubScoreGrid, b : SubScoreGrid]

\* Each sub-score function applied to input.a and to input.b.
CalcPeScore ==
    /\ output.pe = NULL
    /\ output' = [output EXCEPT !.pe = <<calcPeScore(input.a), calcPeScore(input.b)>>]
    /\ UNCHANGED input
    /\ UNCHANGED outsidePure

CalcPsScore ==
    /\ output.ps = NULL
    /\ output' = [output EXCEPT !.ps = <<calcPsScore(input.a), calcPsScore(input.b)>>]
    /\ UNCHANGED input
    /\ UNCHANGED outsidePure

CalcRevenueGrowthScore ==
    /\ output.growth = NULL
    /\ output' = [output EXCEPT !.growth = <<calcRevenueGrowthScore(input.a),
                                             calcRevenueGrowthScore(input.b)>>]
    /\ UNCHANGED input
    /\ UNCHANGED outsidePure

CalcOperatingMarginScore ==
    /\ output.margin = NULL
    /\ output' = [output EXCEPT !.margin = <<calcOperatingMarginScore(input.a),
                                             calcOperatingMarginScore(input.b)>>]
    /\ UNCHANGED input
    /\ UNCHANGED outsidePure

SubScoreInit ==
    /\ PureBase /\ input \in SubScoreInputs
    /\ output = [pe |-> NULL, ps |-> NULL, growth |-> NULL, margin |-> NULL]

SubScoreNext ==
    CalcPeScore \/ CalcPsScore \/ CalcRevenueGrowthScore \/ CalcOperatingMarginScore

SubScoreSpec == SubScoreInit /\ [][SubScoreNext]_vars

\* Points in a series.
MaxPoints == 5

FactPoint(fp, fy, start, end, val) ==
    [fp |-> fp, fy |-> <<fy>>, start |-> start, end |-> end, val |-> val]

\* The points a series is made of: four consecutive quarters of 2023 and the first
\* of 2024, a quarter two years on, a six-month period tagged Q2, the third
\* quarter reported again by a filing of fiscal year 2024 (restated, without a
\* start date), a fourth quarter without a value,
\* and two annual points.
SamplePoints ==
    {FactPoint("Q1", 2023, <<0>>, <<90>>, <<10>>),
     FactPoint("Q2", 2023, <<91>>, <<181>>, <<20>>),
     FactPoint("Q3", 2023, <<182>>, <<273>>, <<30>>),
     FactPoint("Q4", 2023, <<274>>, <<365>>, <<40>>),
     FactPoint("Q1", 2024, <<366>>, <<455>>, <<50>>),
     FactPoint("Q2", 2025, <<730>>, <<800>>, <<60>>),
     FactPoint("Q2", 2023, <<0>>, <<181>>, <<35>>),
     FactPoint("Q3", 2024, NULL, <<273>>, <<31>>),
     FactPoint("Q4", 2023, <<274>>, <<365>>, NULL),
     FactPoint("FY", 2023, <<0>>, <<365>>, <<100>>),
     FactPoint("FY", 2022, <<-365>>, <<0>>, <<90>>)}

\* The series of n points.
TtmInputs(n) == [1..n -> SamplePoints]

\* computeTtm applied to the series.
ComputeTtm ==
    /\ output = NULL
    /\ output' = [ttm |-> computeTtm(input)]
    /\ UNCHANGED input
    /\ UNCHANGED outsidePure

TtmInit == PureBase /\ (\E n \in 0..MaxPoints : input \in TtmInputs(n)) /\ output = NULL

TtmSpec == TtmInit /\ [][ComputeTtm]_vars

\* A unit parseCompanyFacts asks for of no metric.
OtherUnit == "EUR"

\* The units objects a concept can have for a metric asking for unit u: absent
\* (or without entries, which pickUnit treats alike), or entries for u and for OtherUnit in either order, each present or not and
\* empty or not.  A point of a series records the concept and unit it is filed
\* under.
UnitsObjects(concept, u) ==
    LET entry(unit, filled) ==
            [unit |-> unit,
             series |-> IF filled THEN <<[concept |-> concept, unit |-> unit]>> ELSE <<>>]
        one == {<<entry(unit, f)>> : unit \in {u, OtherUnit}, f \in BOOLEAN}
        two == {<<entry(a, f), entry(b, g)>> :
                   a \in {u, OtherUnit}, b \in {u, OtherUnit}, f \in BOOLEAN, g \in BOOLEAN}
    IN  {NULL} \cup one \cup {t \in two : t[1].unit # t[2].unit}

Metrics == DOMAIN MetricConcepts

Range(seq) == {seq[i] : i \in 1..Len(seq)}

\* payload.facts?.['us-gaap'] as far as metric m reads it: missing, or one units
\* object per concept of m.
GaapOf(m) ==
    {NULL} \cup {g \in [Range(MetricConcepts[m]) ->
                            UNION {UnitsObjects(c, MetricUnits[m][1]) : c \in Range(MetricConcepts[m])}] :
                    \A c \in Range(MetricConcepts[m]) : g[c] \in UnitsObjects(c, MetricUnits[m][1])}

\* getFactPoints applied to the payload for the metric.
GetFactPoints ==
    /\ output = NULL
    /\ output' = [points |-> getFactPoints(input.gaap, MetricConcepts[input.metric],
                                           MetricUnits[input.metric])]
    /\ UNCHANGED input
    /\ UNCHANGED outsidePure

FactPointsInit ==
    /\ PureBase /\ output = NULL
    /\ \E m \in Metrics : \E g \in GaapOf(m) : input = [metric |-> m, gaap |-> g]

FactPointsSpec == FactPointsInit /\ [][GetFactPoints]_vars

\* The days on which a refresh can run: FirstDay .. FirstDay + MaxDays - 1.
FirstDay == 14
MaxDays == 28

\* The dates of the first `attempts` bulk requests of a refresh that runs on day
\* `today`: the loop of fetchRealQuotes (and of fetchUniverseQuotes of
\* dataCache.ts) as long as every attempt comes back empty or fails.
BulkDates ==
    /\ output = NULL
    /\ output' = [dates |-> [daysBack \in 1..input.attempts |->
                                recentTradingDate(input.today, daysBack)]]
    /\ UNCHANGED input
    /\ UNCHANGED outsidePure

DateInit ==
    /\ PureBase /\ output = NULL
    /\ input \in [today : FirstDay..(FirstDay + MaxDays - 1), attempts : 1..MaxDaysBack]

DateSpec == DateInit /\ [][BulkDates]_vars

--------------------------------------------------------------------------
(* Properties of the enrichment cache and of the fetch gate *)

\* The step is a call of triggerPreload / of getCacheSnapshot.
TriggerCall == ret' # NULL /\ ret'.op = "triggerPreload"

SnapshotCall == ret' # NULL /\ ret'.op = "getCacheSnapshot"

\* Run id ends in this step.
Completes(id) == runs[id].pc \notin {"none", "done"} /\ runs'[id].pc = "done"

\* A collection with one record per universe ticker, in universe order.
Complete(c) == Len(c) = Len(Tickers) /\ \A i \in 1..Len(c) : c[i].ticker = Tickers[i]

IsPrefix(p, c) == Len(p) <= Len(c) /\ \A i \in 1..Len(p) : p[i] = c[i]

\* C1: single-flight refresh.  At most one pipeline run is in flight at a time; a
\* triggerPreload call made while a run is in flight, whatever its forceRefresh,
\* starts no run, changes nothing of any run and returns the handle of the run in
\* flight; a triggerPreload(false) call made while no run is in flight and the
\* cache is not ready starts exactly one run, so that two such calls back to back
\* start one run between them; and every run makes at most one quote-fetch step
\* and one fundamentals pass, exactly one of each once it has ended.
C1_SingleFlight ==
    /\ [](Cardinality(Active) <= 1)
    /\ [](\A id \in RunIds :
            /\ runs[id].quoteSteps <= 1 /\ runs[id].enrichPasses <= 1
            /\ runs[id].pc = "done" => runs[id].quoteSteps = 1 /\ runs[id].enrichPasses = 1)
    /\ [][(TriggerCall /\ Active # {}) =>
            /\ runs' = runs
            /\ \E id \in Active : ret'.value = [run |-> id] /\ preloadInFlight = [run |-> id]]_vars
    /\ [][(TriggerCall /\ Active = {} /\ ret'.arg = <<FALSE>> /\ state.status # "ready") =>
            /\ Cardinality(Started') = Cardinality(Started) + 1
            /\ Cardinality(Active') = 1
            /\ \E id \in Active' : ret'.value = [run |-> id] /\ runs'[id].quoteSteps = 0]_vars

\* C1's case: a trigger has just been answered with the handle of a run that was
\* already past its first step.
C1_Witness ==
    /\ ret # NULL /\ ret.op = "triggerPreload"
    /\ \E id \in Active : ret.value = [run |-> id] /\ runs[id].pc # "loadSecCikMap"

\* C2: when a refresh fails with a pipeline-fatal error, the cache ends with status
\* 'error' and a non-empty message, and the collection and lastUpdated are what
\* they were when the refresh started.
C2_ErrorKeepsData ==
    [][\A id \in RunIds :
          (Completes(id) /\ runs'[id].outcome = "error") =>
              /\ state'.status = "error"
              /\ state'.error # NULL /\ state'.error # <<"">>
              /\ snapshotOf(state').error = state'.error
              /\ state'.tickers = runs[id].before.tickers
              /\ state'.lastUpdated = runs[id].before.lastUpdated]_vars

\* C2's case: a refresh has failed after an earlier one had filled the cache.
C2_Witness ==
    /\ state.status = "error" /\ state.error # NULL
    /\ Complete(state.tickers) /\ state.lastUpdated # NULL
    /\ \E id \in RunIds : runs[id].outcome = "error"

\* C3: atomic swap.  Every snapshot holds the cache's collection as it is, which is
\* empty (with no lastUpdated) as long as no refresh has succeeded and complete
\* afterwards, never partial; the collection, lastUpdated and the status 'ready'
\* are only ever written together, by the step that ends a successful run, and
\* the collection written extends what that run had built.
C3_AtomicSwap ==
    /\ []((ret # NULL /\ ret.op = "getCacheSnapshot") =>
            /\ ret.value.tickers = <<>> \/ Complete(ret.value.tickers)
            /\ (ret.value.tickers = <<>>) <=> (ret.value.lastUpdated = NULL)
            /\ ret.value.status = "ready" => Complete(ret.value.tickers))
    /\ [][SnapshotCall => ret'.value = snapshotOf(state)]_vars
    /\ [][(\/ state'.tickers # state.tickers
           \/ state'.lastUpdated # state.lastUpdated
           \/ (state'.status = "ready" /\ state.status # "ready")) =>
            \E id \in RunIds :
                /\ Completes(id) /\ runs'[id].outcome = "ready"
                /\ state'.status = "ready"
                /\ state'.lastUpdated = <<now'>>
                /\ Complete(state'.tickers)
                /\ IsPrefix(runs[id].results, state'.tickers)]_vars

\* C3's case: a snapshot taken while a refresh has built part of its collection
\* shows the previous, complete one.
C3_Witness ==
    /\ ret # NULL /\ ret.op = "getCacheSnapshot"
    /\ ret.value.status = "loading" /\ Complete(ret.value.tickers)
    /\ \E id \in Active : runs[id].results # <<>> /\ ~Complete(runs[id].results)

AllowedTransitions ==
    {<<"cold", "loading">>, <<"ready", "loading">>, <<"error", "loading">>,
     <<"loading", "ready">>, <<"loading", "error">>}

\* C4: the status starts as 'cold' and changes only along cold->loading,
\* ready->loading, error->loading, loading->ready and loading->error.
C4_StatusTransitions ==
    /\ state.status = "cold"
    /\ [][state'.status # state.status =>
            <<state.status, state'.status>> \in AllowedTransitions]_vars

\* C4's case: the cache has gone cold -> loading -> error -> loading -> ready.
C4_Witness ==
    /\ state.status = "ready"
    /\ \E i, j \in RunIds : i < j /\ runs[i].outcome = "error" /\ runs[j].outcome = "ready"

\* C5: triggerPreload(false) called while the status is 'ready' is a no-op: it
\* returns a resolved promise, starts no run, issues no request and leaves status,
\* collection, lastUpdated, error and the in-flight handle unchanged.
C5_ReadyNoop ==
    [][(TriggerCall /\ ret'.arg = <<FALSE>> /\ state.status = "ready") =>
          /\ ret'.value = [resolved |-> TRUE]
          /\ UNCHANGED <<state, preloadInFlight, runs, liveCikMap, liveCikMapInFlight, now>>
          /\ UNCHANGED outsideCache]_vars

\* C5's case: such a call has just returned.
C5_Witness ==
    /\ ret # NULL /\ ret.op = "triggerPreload" /\ ret.arg = <<FALSE>>
    /\ ret.value = [resolved |-> TRUE]
    /\ state.status = "ready"

\* C6 as stated: triggerPreload(true) called while the status is 'ready' starts a
\* new run (the status becomes 'loading'), and when a run that started with a
\* lastUpdated in the cache succeeds, lastUpdated is newer than that.
C6_ForcedRefreshNewer ==
    /\ [][(TriggerCall /\ ret'.arg = <<TRUE>> /\ state.status = "ready") =>
            state'.status = "loading"]_vars
    /\ [][\A id \in RunIds :
            (Completes(id) /\ runs'[id].outcome = "ready" /\ runs[id].before.lastUpdated # NULL) =>
                /\ state'.lastUpdated # NULL
                /\ state'.lastUpdated[1] > runs[id].before.lastUpdated[1]]_vars

\* C6, amended: triggerPreload(true) called while the status is 'ready' starts a
\* new run (the status becomes 'loading'), and when a run that started with a
\* lastUpdated in the cache succeeds, lastUpdated is the clock's reading at that
\* moment: never older than the value before, and newer exactly when the clock
\* has moved on since.
C6_ForcedRefresh ==
    /\ [][(TriggerCall /\ ret'.arg = <<TRUE>> /\ state.status = "ready") =>
            /\ state'.status = "loading"
            /\ Cardinality(Started') = Cardinality(Started) + 1
            /\ \E id \in Started' \ Started :
                  /\ ret'.value = [run |-> id] /\ preloadInFlight' = [run |-> id]
                  /\ runs'[id].pc = "loadSecCikMap"]_vars
    /\ [][\A id \in RunIds :
            (Completes(id) /\ runs'[id].outcome = "ready" /\ runs[id].before.lastUpdated # NULL) =>
                /\ state'.lastUpdated = <<now'>>
                /\ state'.lastUpdated[1] >= runs[id].before.lastUpdated[1]
                /\ (state'.lastUpdated[1] > runs[id].before.lastUpdated[1])
                       <=> (now' > runs[id].before.lastUpdated[1])]_vars

\* C6's case: a forced refresh of a ready cache has succeeded, and so quickly that
\* the clock still reads what it read when the first refresh succeeded.
C6_Witness ==
    /\ state.status = "ready"
    /\ \E i, j \in RunIds : i < j /\ runs[i].outcome = "ready" /\ runs[j].outcome = "ready"
    /\ state.lastUpdated = <<1>> /\ now = 1

\* C7: getCacheSnapshot can be called in every state, also while a refresh is in
\* progress, and a call changes nothing: not the cache state, not the in-flight
\* handle, not any run (so it starts none and issues no request).
C7_SnapshotNeverBlocks ==
    /\ [](ENABLED getCacheSnapshot)
    /\ [][SnapshotCall =>
            /\ UNCHANGED <<state, preloadInFlight, runs, liveCikMap, liveCikMapInFlight, now>>
            /\ UNCHANGED outsideCache]_vars

\* C7's case: a snapshot has been returned while a refresh is in progress.
C7_Witness ==
    /\ ret # NULL /\ ret.op = "getCacheSnapshot" /\ ret.value.status = "loading"
    /\ Active # {} /\ preloadInFlight # NULL

\* C8: when a real-mode refresh obtains no quote at all, it ends with status
\* 'error' and a message, and the collection is the one from before the refresh.
C8_NoQuotesIsFatal ==
    [][\A id \in RunIds :
          (Completes(id) /\ isRealMode /\ runs'[id].noQuotes) =>
              /\ state'.status = "error"
              /\ state'.error # NULL
              /\ state'.tickers = runs[id].before.tickers]_vars

\* C9: every refresh that has been started ends, with status 'ready' or 'error'
\* and the in-flight handle cleared; no step takes a started run back or drops
\* it; and the handle is set only while a run is in flight, so that a later
\* trigger starts a new run.
C9_RefreshEnds ==
    /\ (Active # {}) ~>
          (Active = {} /\ state.status \in {"ready", "error"} /\ preloadInFlight = NULL)
    /\ [][\A id \in RunIds :
            /\ runs[id].pc # "none" => runs'[id].pc # "none"
            /\ runs[id].pc = "done" => runs'[id].pc = "done"
            /\ Completes(id) => state'.status \in {"ready", "error"} /\ preloadInFlight' = NULL]_vars
    /\ [](Active = {} => preloadInFlight = NULL)

\* C9's case: after a run has ended, a trigger has started the next one.
C9_Witness ==
    \E i, j \in RunIds : i < j /\ runs[i].pc = "done" /\ runs[j].pc \notin {"none", "done"}

\* C10: no two requests released by the gate start less than the minimum interval
\* apart, however the callers interleave.
C10_GateSpacing ==
    \A i, j \in 1..Len(released) :
        i < j => released[j] - released[i] >= MIN_REQUEST_INTERVAL_MS

--------------------------------------------------------------------------
(* Properties of the universe quote service *)

\* The step is a getUniverseQuotes call, the one with id c.
QuoteCall(c) == quoteCalls[c].pc = "none" /\ quoteCalls'[c].pc # "none"

\* C13: non-forced getUniverseQuotes calls that wait for a refresh at the same
\* time wait for the same refresh, so that at most one refresh runs for them and
\* each of them receives its result.
C13_NonForcedDedup ==
    \A c1, c2 \in CallIds :
        (/\ ~quoteCalls[c1].forceRefresh /\ quoteCalls[c1].pc \in {"refresh", "joined"}
         /\ ~quoteCalls[c2].forceRefresh /\ quoteCalls[c2].pc \in {"refresh", "joined"})
            => quoteCalls[c1].awaits = quoteCalls[c2].awaits

\* C14: a getUniverseQuotes call with forceRefresh=true made while a refresh is in
\* flight starts no refresh and awaits the one in flight.
C14_ForcedJoins ==
    [][\A c \in CallIds :
          (QuoteCall(c) /\ quoteCalls'[c].forceRefresh /\ inFlightRefresh # NULL) =>
              /\ StartedRefreshes' = StartedRefreshes
              /\ quoteCalls'[c].awaits = inFlightRefresh]_vars

\* C15: the quote map a non-forced getUniverseQuotes call returns was fetched at
\* most QUOTE_TTL_MS before the call chose it, whether it came from memory, from
\* disk or from a refresh.
C15_TtlBoundedValidity ==
    \A c \in CallIds :
        (quoteCalls[c].pc = "done" /\ ~quoteCalls[c].forceRefresh) =>
            quoteCalls[c].at - quoteCalls[c].value.fetchedAt <= QUOTE_TTL_MS

\* C18: in real mode without the credential no refresh produces a quote map and no
\* call returns one from a refresh: the refresh fails instead.
C18_MissingKeyFails ==
    (isRealMode /\ ~polygonApiKey) =>
        /\ \A rid \in RefreshIds : refreshes[rid].result = NULL
        /\ \A c \in CallIds : quoteCalls[c].from \notin {"refresh", "joined"}

\* C19: in mock mode a refresh issues no upstream request and makes no fallback
\* call, never waits on the gate and leaves lastRequestAt as it was, and its map
\* holds for every universe ticker the price computed from the ticker's characters,
\* so that any two refreshes agree on every ticker's price.
C19_MockQuotes ==
    ~isRealMode =>
        /\ lastRequestAt = 0 /\ released = <<>>
        /\ \A rid \in RefreshIds :
              LET r == refreshes[rid]
              IN /\ r.bulk = 0 /\ r.prevRequests = <<>> /\ r.prevCalls = <<>>
                 /\ r.pc \in {"none", "mkdir", "writeFile", "done"}
                 /\ r.pc # "none" =>
                       \A t \in TickerSet :
                           /\ r.result.quotes[t] # NULL
                           /\ r.result.quotes[t].price = mockPrice(t)
        /\ \A r1, r2 \in StartedRefreshes, t \in TickerSet :
              refreshes[r1].result.quotes[t].price = refreshes[r2].result.quotes[t].price

\* C19's case: two mock refreshes made at different times have both resolved, and
\* a call has returned the map of one of them.
C19_Witness ==
    /\ ~isRealMode
    /\ \E r1, r2 \in RefreshIds :
          /\ refreshes[r1].pc = "done" /\ refreshes[r2].pc = "done"
          /\ refreshes[r1].result.fetchedAt < refreshes[r2].result.fetchedAt
    /\ \E c \in CallIds : quoteCalls[c].pc = "done" /\ quoteCalls[c].from = "refresh"

\* C16: a real-mode refresh issues at most 7 grouped-daily requests; it issues one
\* only while no earlier one has yielded a quote; and an attempt that fails or
\* yields no quote is followed by the attempt for the next date or, after the
\* seventh, by the per-ticker fallback, the refresh going on.
C16_BulkAttempts ==
    /\ [](\A rid \in RefreshIds : refreshes[rid].bulk <= MaxDaysBack)
    /\ [][\A rid \in RefreshIds :
            refreshes'[rid].bulk > refreshes[rid].bulk =>
                /\ refreshes'[rid].quotes = NoQuotes
                /\ refreshes'[rid].bulkMisses = refreshes[rid].bulk
                /\ refreshes'[rid].bulk = refreshes[rid].bulk + 1]_vars
    /\ [][\A rid \in RefreshIds :
            (refreshes[rid].pc = "grouped" /\ refreshes'[rid].bulkMisses > refreshes[rid].bulkMisses) =>
                /\ refreshes'[rid].daysBack = refreshes[rid].daysBack + 1
                /\ refreshes'[rid].pc \in
                      IF refreshes[rid].daysBack < MaxDaysBack
                      THEN {"grouped", "groupedWait"}
                      ELSE {"prev", "prevWait"}]_vars

\* C16's case: six grouped-daily requests gave nothing and the seventh has
\* yielded a quote.
C16_Witness ==
    \E rid \in RefreshIds :
        /\ refreshes[rid].bulk = MaxDaysBack /\ refreshes[rid].bulkMisses = MaxDaysBack - 1
        /\ refreshes[rid].quotes # NoQuotes
        /\ refreshes[rid].pc \in {"mkdir", "writeFile", "done"}

--------------------------------------------------------------------------
(* Properties of the Polygon requests of the process *)

\* The outbound Polygon requests made so far, by issuer, and when each started.
Outbound ==
    {<<"gate", i>> : i \in 1..Len(released)}
        \cup {<<"orchestrator", i>> : i \in 1..Len(directFetches)}
        \cup {<<"provider", i>> : i \in 1..Len(providerReleased)}

StartOf(q) ==
    IF q[1] = "gate" THEN released[q[2]]
    ELSE IF q[1] = "orchestrator" THEN directFetches[q[2]]
    ELSE providerReleased[q[2]]

\* C11: any two outbound Polygon requests of the process, whichever of the shared
\* gate's callers, the orchestrator's quote step and the stock provider issued
\* them, start at least MIN_REQUEST_INTERVAL_MS apart.
C11_GlobalQuota ==
    \A p, q \in Outbound :
        p # q => Abs(StartOf(p) - StartOf(q)) >= MIN_REQUEST_INTERVAL_MS

--------------------------------------------------------------------------
(* Properties of the fundamentals pass *)

\* The step issues a fetchSecFacts request of run id.
IssuesFacts(id) ==
    /\ runs'[id].pc = "fetchSecFacts"
    /\ runs[id].pc # "fetchSecFacts" \/ runs'[id].k # runs[id].k

RecordOf(t, e, f) ==
    enrichTicker(t, [kind |-> "object", keys |-> IF e.companyName = NULL THEN {} ELSE {t}],
                 [u \in TickerSet |-> IF e.latestPrice = NULL THEN NULL ELSE [price |-> e.latestPrice]],
                 f)

\* C20: per-ticker isolation.  A refresh ends 'ready' unless the seed map is not an
\* object at all; the collection it publishes holds one record per universe
\* ticker in universe order and extends the records built before the step; the
\* record of a ticker whose CIK was not resolved or whose fetchSecFacts threw has
\* null fundamentals; and the record of every other ticker is what the ticker's
\* own price, seed entry and facts give, whatever happened to its siblings.
C20_PerTickerIsolation ==
    [][\A id \in RunIds :
          Completes(id) =>
              /\ \/ runs'[id].outcome = "ready"
                 \/ runs'[id].outcome = "error" /\ state'.error = <<"Cannot read properties of null">>
              /\ ~isRealMode => runs'[id].failed = {}
              /\ runs'[id].outcome = "ready" =>
                    /\ state'.status = "ready"
                    /\ Complete(state'.tickers)
                    /\ IsPrefix(runs[id].results, state'.tickers)
                    /\ \A k \in 1..Len(Tickers) :
                          LET e == state'.tickers[k]
                              t == Tickers[k]
                          IN IF t \in runs'[id].failed
                             THEN /\ e = RecordOf(t, e, NullFacts)
                                  /\ e.epsTtm = NULL /\ e.revenueTtm = NULL
                                  /\ e.revenueGrowthYoY = NULL /\ e.operatingMargin = NULL
                                  /\ e.marketCap = NULL /\ e.peTtm = NULL /\ e.ps = NULL
                                  /\ e.fundamentalsAsOf = NULL
                             ELSE isRealMode => \E f \in SampleFacts : e = RecordOf(t, e, f)]_vars

\* C20's case: the one refresh made so far, in real mode, has ended 'ready' with
\* one ticker failed and a sibling holding its fundamentals.
C20_Witness ==
    /\ isRealMode /\ state.status = "ready"
    /\ \E id \in RunIds :
          /\ runs[id].pc = "done" /\ runs[id].outcome = "ready"
          /\ \A other \in RunIds : other # id => runs[other].pc = "none"
          /\ \E i, j \in 1..Len(Tickers) :
                /\ Tickers[i] \in runs[id].failed /\ Tickers[j] \notin runs[id].failed
                /\ state.tickers[i].epsTtm = NULL /\ state.tickers[j].epsTtm # NULL

--------------------------------------------------------------------------
(* Properties of the records a refresh builds *)

\* The record of universe ticker number k shows no seed entry, and the live
\* ticker->CIK map is unavailable or does not know the ticker.
Unresolved(k, tickers, liveMap) ==
    /\ tickers[k].companyName = NULL
    /\ liveMap = NULL \/ Tickers[k] \notin liveMap.keys

\* C21: the record a real-mode refresh publishes for a ticker whose CIK is neither
\* in the seed map nor in the live lookup has epsTtm, revenueTtm, revenueGrowthYoY,
\* operatingMargin, fundamentalsAsOf, marketCap, peTtm and ps null, every
\* sub-score 0 and valueScore 0, whether or not it has a price.
C21_UnresolvedIsNull ==
    [][\A id \in RunIds :
          (isRealMode /\ Completes(id) /\ runs'[id].outcome = "ready") =>
              \A k \in 1..Len(Tickers) :
                  Unresolved(k, state'.tickers, liveCikMap') =>
                      LET e == state'.tickers[k]
                      IN  /\ e.ticker = Tickers[k]
                          /\ e.epsTtm = NULL /\ e.revenueTtm = NULL
                          /\ e.revenueGrowthYoY = NULL /\ e.operatingMargin = NULL
                          /\ e.fundamentalsAsOf = NULL
                          /\ e.marketCap = NULL /\ e.peTtm = NULL /\ e.ps = NULL
                          /\ e.scoreBreakdown =
                                [peScore |-> 0, psScore |-> 0,
                                 revenueGrowthScore |-> 0, operatingMarginScore |-> 0]
                          /\ e.valueScore = 0]_vars

\* C21's case: a real-mode refresh has published, with a price, the record of a
\* ticker that neither the seed map nor the live lookup knows.
C21_Witness ==
    /\ isRealMode /\ state.status = "ready"
    /\ \E id \in RunIds : runs[id].pc = "done" /\ runs[id].outcome = "ready"
    /\ \E k \in 1..Len(Tickers) :
          /\ Unresolved(k, state.tickers, liveCikMap) /\ liveCikMap # NULL
          /\ state.tickers[k].latestPrice # NULL
          /\ state.tickers[k].valueScore = 0

\* a and b are the same number.
SameNumber(a, b) == a.n * b.d = b.n * a.d

\* C22 as amended: in the record built for a ticker, peTtm is non-null exactly
\* when latestPrice and epsTtm are non-null and epsTtm is not 0, and is then
\* price/EPS; marketCap is non-null exactly when latestPrice and sharesOutstanding
\* are non-null, and is then price*shares; ps is non-null exactly when marketCap
\* and revenueTtm are non-null and revenueTtm is not 0, and is then
\* marketCap/revenue.
C22_RatiosWhereDefined ==
    output # NULL =>
        LET e == output
            f == input.facts
        IN  /\ e.latestPrice = input.price
            /\ e.epsTtm = f.epsTtm /\ e.revenueTtm = f.revenueTtm
            /\ (e.peTtm # NULL) <=>
                  (e.latestPrice # NULL /\ f.epsTtm # NULL /\ f.epsTtm # Num[0])
            /\ e.peTtm # NULL =>
                  e.peTtm.n * f.epsTtm.n * e.latestPrice.d
                      = e.latestPrice.n * f.epsTtm.d * e.peTtm.d
            /\ (e.marketCap # NULL) <=>
                  (e.latestPrice # NULL /\ f.sharesOutstanding # NULL)
            /\ e.marketCap # NULL =>
                  e.marketCap.n * e.latestPrice.d * f.sharesOutstanding.d
                      = e.latestPrice.n * f.sharesOutstanding.n * e.marketCap.d
            /\ (e.ps # NULL) <=>
                  (e.marketCap # NULL /\ f.revenueTtm # NULL /\ f.revenueTtm # Num[0])
            /\ e.ps # NULL =>
                  e.ps.n * f.revenueTtm.n * e.marketCap.d
                      = e.marketCap.n * f.revenueTtm.d * e.ps.d

\* C22's case: a record with all three ratios present.
C22_Witness ==
    /\ output # NULL
    /\ output.peTtm # NULL /\ output.marketCap # NULL /\ output.ps # NULL
    /\ ~SameNumber(output.ps, output.peTtm)

\* C22 as stated: each ratio is non-null exactly when both of its operands are
\* non-null.  A zero EPS or a zero revenue refutes it.
C22_AsStated ==
    output # NULL =>
        /\ (output.peTtm # NULL) <=> (output.latestPrice # NULL /\ output.epsTtm # NULL)
        /\ (output.marketCap # NULL) <=>
              (output.latestPrice # NULL /\ input.facts.sharesOutstanding # NULL)
        /\ (output.ps # NULL) <=> (output.marketCap # NULL /\ output.revenueTtm # NULL)

--------------------------------------------------------------------------
(* Properties of the ticker route *)

\* The step belongs to request i for a ticker outside the universe: the request
\* arrives, or its provider calls settle.
ServesOutside(i) ==
    /\ i \in 1..Len(routeCalls')
    /\ routeCalls'[i].ticker = OutsideTicker
    /\ i > Len(routeCalls) \/ routeCalls'[i] # routeCalls[i]

\* C23 as amended: serving a ticker outside the universe leaves status,
\* collection, lastUpdated and error unchanged and starts no refresh in every
\* cache state but 'cold'; a request that finds the cache cold starts the
\* background refresh (the status becomes 'loading', the collection stays as it
\* was) and is still served on demand; and the record served is computed from the
\* provider results, never taken from nor written to the cache.
C23_OnDemandFrame ==
    [][\A i \in 1..MaxRouteCalls :
          ServesOutside(i) =>
              /\ UNCHANGED <<liveCikMap, liveCikMapInFlight>>
              /\ state.status # "cold" => UNCHANGED <<state, preloadInFlight, runs>>
              /\ (state.status # "cold" /\ i > Len(routeCalls)) => ~routeCalls'[i].warmed
              /\ (state.status = "cold" /\ i > Len(routeCalls)) =>
                    /\ routeCalls'[i].warmed /\ routeCalls'[i].pc = "onDemand"
                    /\ state' = [state EXCEPT !.status = "loading"]
                    /\ preloadInFlight = NULL /\ preloadInFlight' # NULL
                    /\ Cardinality({id \in RunIds : runs'[id].pc # "none"}) = 1
              /\ i <= Len(routeCalls) => UNCHANGED <<state, preloadInFlight, runs>>
              /\ (routeCalls'[i].pc = "responded" /\ routeCalls'[i].httpStatus = 200) =>
                    /\ i <= Len(routeCalls)
                    /\ routeCalls'[i].body.ticker.ticker = OutsideTicker
                    /\ routeCalls'[i].body.ticker.companyName = NULL]_vars

\* C23's case: a request for a ticker outside the universe was served on demand
\* without warming, and the cache is 'ready' with the universe's records only.
C23_Witness ==
    /\ state.status = "ready" /\ Complete(state.tickers)
    /\ \E i \in 1..Len(routeCalls) :
          /\ routeCalls[i].ticker = OutsideTicker
          /\ routeCalls[i].pc = "responded" /\ routeCalls[i].httpStatus = 200
          /\ ~routeCalls[i].warmed
          /\ routeCalls[i].body.ticker.latestPrice # NULL

\* C23 as stated: in every cache state, cold included, a request for a ticker
\* outside the universe leaves the cache as it was and starts no refresh.
C23_AsStated ==
    [][\A i \in 1..MaxRouteCalls :
          ServesOutside(i) => UNCHANGED <<state, preloadInFlight, runs>>]_vars

--------------------------------------------------------------------------
(* Properties of the scorers *)

\* C24: for every combination of the four inputs, each missing or a number, each
\* sub-score calculateValueScore returns is an integer in [0,25] and the total
\* is an integer in [0,100] (and is their sum).
C24_ScoreRanges ==
    output.lib # NULL =>
        LET b == output.lib.breakdown
        IN  /\ b.peScore \in 0..25 /\ b.psScore \in 0..25
            /\ b.revenueGrowthScore \in 0..25 /\ b.operatingMarginScore \in 0..25
            /\ output.lib.total \in 0..100
            /\ output.lib.total
                  = b.peScore + b.psScore + b.revenueGrowthScore + b.operatingMarginScore

\* C24's case: scored inputs that lie beyond both ends of the clamps, one sub-score
\* clamped at 25 and another at 0.
C24_Witness ==
    /\ output.lib # NULL
    /\ input.ps = Num[-5] /\ input.peTtm = Num[1000]
    /\ input.operatingMargin = Num[40] /\ input.revenueGrowthYoY = Rat[11, 2]
    /\ output.lib.breakdown.psScore = 25 /\ output.lib.breakdown.peScore = 0
    /\ output.lib.breakdown.operatingMarginScore = 25

\* C28: the two scorers, calculateValueScore of lib/valueScore.ts and of
\* scoring/calculateValueScore.ts, return the same total and the same four
\* sub-scores for every combination of inputs.
C28_ScorersAgree ==
    (output.lib # NULL /\ output.scoring # NULL) =>
        /\ output.lib.total = output.scoring.total
        /\ output.lib.breakdown.peScore = output.scoring.breakdown.peScore
        /\ output.lib.breakdown.psScore = output.scoring.breakdown.psScore
        /\ output.lib.breakdown.revenueGrowthScore = output.scoring.breakdown.growthScore
        /\ output.lib.breakdown.operatingMarginScore = output.scoring.breakdown.marginScore

\* Min(25, Max(0, v)) on integers.
Clamped25(v) == IF v < 0 THEN 0 ELSE IF v > 25 THEN 25 ELSE v

\* x is a number above zero.
Positive(x) == x # NULL /\ x.n > 0

\* C25 as amended: calcPeScore is non-increasing over the positive P/E values (for
\* positive a <= b, calcPeScore(a) >= calcPeScore(b)); it is 0 for a missing, zero
\* or negative P/E; calcPeScore(10) = 25 and calcPeScore(40) = 0.
C25_PeNonIncreasing ==
    output.pe # NULL =>
        /\ (Positive(input.a) /\ Positive(input.b) /\ RatLeq(input.a, input.b)) =>
              output.pe[1] >= output.pe[2]
        /\ ~Positive(input.a) => output.pe[1] = 0
        /\ input.a = Num[10] => output.pe[1] = 25
        /\ input.a = Num[40] => output.pe[1] = 0
        /\ (Positive(input.a) /\ RatLeq(input.a, Num[10])) => output.pe[1] = 25
        /\ (Positive(input.a) /\ RatLeq(Num[40], input.a)) => output.pe[1] = 0

\* C25's case: two positive P/E values between the pivots, the larger one scored
\* strictly lower.
C25_Witness ==
    /\ output.pe # NULL
    /\ input.a = Num[15] /\ input.b = Rat[61, 2]
    /\ output.pe[1] > output.pe[2] /\ output.pe[2] > 0

\* C25 as stated: for all P/E values a <= b, calcPeScore(a) >= calcPeScore(b).
\* A zero or negative a with b between 0 and 40 refutes it.
C25_AsStated ==
    (output.pe # NULL /\ input.a # NULL /\ input.b # NULL /\ RatLeq(input.a, input.b)) =>
        output.pe[1] >= output.pe[2]

\* floor(x + 1/2) for x = num/den, den > 0: the canonical rounding, in integers.
RoundHalfUp(num, den) == (2 * num + den) \div (2 * den)

\* C26: calcPsScore(null) = calcPsScore(10) = 0, calcPsScore(1) = 25, and for every
\* P/S n/d the result is round(25*(1 - (n/d - 1)/9)) = round(25*(10d - n)/(9d))
\* clamped to [0,25].
C26_PsFormula ==
    output.ps # NULL =>
        /\ input.a = NULL => output.ps[1] = 0
        /\ input.a = Num[10] => output.ps[1] = 0
        /\ input.a = Num[1] => output.ps[1] = 25
        /\ input.a # NULL =>
              output.ps[1]
                  = Clamped25(RoundHalfUp(25 * (10 * input.a.d - input.a.n), 9 * input.a.d))

\* C26's case: a missing P/S and a P/S of 10 scored alike.
C26_Witness ==
    /\ output.ps # NULL
    /\ input.a = NULL /\ input.b = Num[10]
    /\ output.ps = <<0, 0>>

\* Max(0, v) on integers.
AtLeast0(v) == IF v < 0 THEN 0 ELSE v

\* C27: for a growth n/d the growth sub-score is round(25*max(0, n/d)/20) clamped
\* to [0,25], 25 from a growth of 20 on and 0 for a growth of 0 or less or
\* missing; for a margin n/d the margin sub-score is round(25*max(0, n/d)/25)
\* clamped to [0,25], 25 from a margin of 25 on and 0 for a margin of 0 or less or
\* missing.
C27_GrowthAndMargin ==
    /\ output.growth # NULL =>
          /\ input.a # NULL =>
                output.growth[1]
                    = Clamped25(RoundHalfUp(25 * AtLeast0(input.a.n), 20 * input.a.d))
          /\ (input.a # NULL /\ RatLeq(Num[20], input.a)) => output.growth[1] = 25
          /\ ~Positive(input.a) => output.growth[1] = 0
    /\ output.margin # NULL =>
          /\ input.a # NULL =>
                output.margin[1]
                    = Clamped25(RoundHalfUp(25 * AtLeast0(input.a.n), 25 * input.a.d))
          /\ (input.a # NULL /\ RatLeq(Num[25], input.a)) => output.margin[1] = 25
          /\ ~Positive(input.a) => output.margin[1] = 0

\* C27's case: a growth and a margin of 12.5, scored 16 and 13.
C27_Witness ==
    /\ output.growth # NULL /\ output.margin # NULL
    /\ input.a = Rat[25, 2]
    /\ output.growth[1] = 16 /\ output.margin[1] = 13

--------------------------------------------------------------------------
(* Properties of the TTM normalisation *)

\* The positions of the qualifying quarterly points of a series: tag Q1-Q4, a
\* period of 45 to 120 days when both dates are present, and a value and an end
\* date present.
QualifyingAt(points) ==
    {i \in 1..Len(points) :
        /\ points[i].fp \in {"Q1", "Q2", "Q3", "Q4"}
        /\ points[i].val # NULL /\ points[i].end # NULL
        /\ points[i].start # NULL =>
              (points[i].end[1] - points[i].start[1]) \in 45..120}

\* One position per distinct (fiscal year, tag, end date): the first in the series.
UniqueAt(points) ==
    {i \in QualifyingAt(points) :
        \A j \in QualifyingAt(points) :
            (points[j].fy = points[i].fy /\ points[j].fp = points[i].fp
                /\ points[j].end = points[i].end) => i <= j}

\* The positions of the annual points that have a value.
AnnualAt(points) ==
    {i \in 1..Len(points) :
        points[i].fp = "FY" /\ points[i].val # NULL /\ points[i].end # NULL}

\* The days between the oldest and the newest end date at positions S.
SpanDays(points, S) ==
    LET ends == {points[i].end[1] : i \in S}
    IN  (CHOOSE hi \in ends : \A e \in ends : e <= hi)
            - (CHOOSE lo \in ends : \A e \in ends : lo <= e)

RECURSIVE SumAt(_, _)
SumAt(points, S) ==
    IF S = {} THEN 0
    ELSE LET i == CHOOSE i \in S : TRUE IN points[i].val[1] + SumAt(points, S \ {i})

\* C29: a series with exactly four unique qualifying quarters spanning at most
\* 430 days has the sum of their values as its TTM; a series with three or fewer
\* has the value of its latest annual point; and with no annual point either, the
\* TTM is null.
C29_TtmNormalization ==
    output # NULL =>
        LET unique == UniqueAt(input)
            annual == AnnualAt(input)
        IN  /\ (Cardinality(unique) = 4 /\ SpanDays(input, unique) <= 430) =>
                  output.ttm = <<SumAt(input, unique)>>
            /\ (Cardinality(unique) <= 3 /\ annual # {}) =>
                  \E i \in annual :
                      /\ \A j \in annual : input[j].end[1] <= input[i].end[1]
                      /\ output.ttm = input[i].val
            /\ (Cardinality(unique) <= 3 /\ annual = {}) => output.ttm = NULL

\* C29's case: four unique quarters within 430 days are summed although the
\* series also holds an annual point.
C29_Witness ==
    /\ output # NULL /\ Len(input) = MaxPoints
    /\ Cardinality(UniqueAt(input)) = 4
    /\ SpanDays(input, UniqueAt(input)) = 274
    /\ AnnualAt(input) # {}
    /\ output.ttm = <<140>>

\* C30: a series whose four newest unique qualifying quarters span more than 430
\* days has a null TTM; the annual point is used only with fewer than four.
C30_GapIsNull ==
    (output # NULL /\ Cardinality(UniqueAt(input)) = 4
        /\ SpanDays(input, UniqueAt(input)) > 430) => output.ttm = NULL

\* C31: the four quarterly points summed into a TTM value have four different
\* period end dates, so no period is counted twice.
C31_DistinctPeriods ==
    (output # NULL /\ computeTtmFromQuarters(input) # NULL) =>
        LET unique == uniqueOf(input)
        IN  /\ Len(unique) = 4
            /\ \A i, j \in 1..4 : i # j => unique[i].end # unique[j].end

--------------------------------------------------------------------------
(* Properties of the choice of a metric's series *)

\* Concept c has data for metric m in a unit m accepts.
HasAcceptable(m, gaap, c) ==
    /\ gaap # NULL /\ gaap[c] # NULL
    /\ \E i \in 1..Len(gaap[c]) :
          gaap[c][i].unit \in Range(MetricUnits[m]) /\ Len(gaap[c][i].series) > 0

\* C32: the series chosen for a metric is filed under one of the metric's
\* concepts in one of its units; it is the series of the first concept that has
\* data in such a unit; and it is empty (the metric null) when no concept has.
C32_AcceptableSeries ==
    output # NULL =>
        LET m == input.metric
            concepts == MetricConcepts[m]
            good == {k \in 1..Len(concepts) : HasAcceptable(m, input.gaap, concepts[k])}
        IN  /\ \A i \in 1..Len(output.points) :
                  /\ output.points[i].unit \in Range(MetricUnits[m])
                  /\ output.points[i].concept \in Range(concepts)
            /\ good = {} => output.points = <<>>
            /\ good # {} =>
                  /\ output.points # <<>>
                  /\ output.points[1].concept
                        = concepts[CHOOSE k \in good : \A j \in good : k <= j]

--------------------------------------------------------------------------
(* Properties of the bulk attempts' dates *)

\* C33: the successive bulk attempts of one refresh ask for strictly earlier
\* dates, none of them a Saturday or a Sunday.
C33_EarlierWeekdays ==
    output # NULL =>
        /\ \A i \in 1..Len(output.dates) : getDay(output.dates[i]) \in 1..5
        /\ \A i, j \in 1..Len(output.dates) : i < j => output.dates[j] < output.dates[i]

--------------------------------------------------------------------------
(* Properties of the live identifier lookup *)

\* The runs that await the live ticker->CIK map.
AwaitingLiveMap == {id \in RunIds : runs[id].pc = "getLiveCikMap"}

\* C34: once the live lookup has succeeded its map is kept as it is and no
\* refresh requests it again; at most one fetch is in flight, and the in-flight
\* handle is set exactly while a refresh awaits it; a fetch that fails clears the
\* handle, caches nothing and does not fail the refresh (which ends in error only
\* on a seed map that is no object); and a real-mode refresh that reaches its
\* fundamentals pass without a cached map requests it (again).
C34_LiveLookupOnce ==
    /\ [](/\ Cardinality(AwaitingLiveMap) <= 1
          /\ (liveCikMapInFlight # NULL) <=> (AwaitingLiveMap # {})
          /\ \A id \in AwaitingLiveMap : liveCikMapInFlight = [run |-> id] /\ isRealMode
          /\ liveCikMap # NULL => liveCikMapInFlight = NULL)
    /\ [][liveCikMap # NULL =>
            /\ liveCikMap' = liveCikMap
            /\ \A id \in RunIds : runs'[id].pc # "getLiveCikMap"]_vars
    /\ [][\A id \in RunIds :
            (runs[id].pc = "getLiveCikMap" /\ runs'[id].pc # "getLiveCikMap"
                /\ liveCikMap' = NULL) =>
                /\ liveCikMapInFlight' = NULL
                /\ runs'[id].pc \in {"done", "fetchSecFacts"}
                /\ runs'[id].outcome = "error" => runs[id].secMap.kind = "null"
                /\ runs'[id].pc = "fetchSecFacts" =>
                      Tickers[runs'[id].k] \in runs[id].secMap.keys]_vars
    /\ [][\A id \in RunIds :
            (isRealMode /\ runs'[id].enrichPasses = runs[id].enrichPasses + 1
                /\ liveCikMap = NULL) =>
                /\ runs'[id].pc = "getLiveCikMap"
                /\ liveCikMapInFlight' = [run |-> id]]_vars

\* C34's case: after a refresh whose live lookup failed has ended 'ready', the
\* next refresh requests the live map again.
C34_Witness ==
    /\ liveCikMap = NULL /\ state.status = "loading"
    /\ \E first, second \in RunIds :
          /\ runs[first].pc = "done" /\ runs[first].outcome = "ready"
          /\ runs[first].enrichPasses = 1
          /\ runs[second].pc = "getLiveCikMap"
          /\ liveCikMapInFlight = [run |-> second]

--------------------------------------------------------------------------
(* Properties of the error message *)

\* Run id starts in this step.
Starts(id) == runs[id].pc = "none" /\ runs'[id].pc # "none"

\* C35: the cache holds, and every snapshot carries, an error message only when
\* the status is 'error'; the step that starts a refresh clears the message and
\* the step that ends a refresh successfully leaves none.
C35_ErrorOnlyInError ==
    /\ [](state.status # "error" => state.error = NULL /\ snapshotOf(state).error = NULL)
    /\ [][SnapshotCall =>
            /\ ret'.value = snapshotOf(state)
            /\ ret'.value.status # "error" => ret'.value.error = NULL]_vars
    /\ [][\A id \in RunIds :
            Starts(id) => state'.status = "loading" /\ state'.error = NULL]_vars
    /\ [][\A id \in RunIds :
            (Completes(id) /\ runs'[id].outcome = "ready") =>
                state'.status = "ready" /\ state'.error = NULL]_vars

\* C35's case: a snapshot taken while a refresh that follows a failed one is
\* loading carries no message.
C35_Witness ==
    /\ ret # NULL /\ ret.op = "getCacheSnapshot"
    /\ ret.value.status = "loading" /\ ret.value.error = NULL
    /\ \E id \in RunIds : runs[id].pc = "done" /\ runs[id].outcome = "error"

--------------------------------------------------------------------------
(* Revenue growth year over year *)

computeRevenueGrowthYoY(points) ==
    LET isAnnual(p) == p.fp = "FY" /\ hasValidValue(p)
        annual == sortByEndDesc(SelectSeq(points, isAnnual))
    IN  IF Len(annual) < 2 THEN NULL
        ELSE LET current == annual[1].val[1]
                 prior == annual[2].val[1]
             IN  IF prior = 0 THEN NULL
                 ELSE <<RatMul[RatDiv[Num[current - prior], Num[Abs(prior)]], Num[100]]>>

\* The longest series of annual points tried.
MaxAnnualPoints == 3

\* Annual points of three fiscal years, one of them filed a second time with a
\* restated value, one with the value 0, one without a value, and a quarter.
AnnualPoints ==
    {FactPoint("FY", 2023, <<0>>, <<365>>, <<120>>),
     FactPoint("FY", 2024, <<0>>, <<365>>, <<100>>),
     FactPoint("FY", 2022, <<-365>>, <<0>>, <<80>>),
     FactPoint("FY", 2021, <<-730>>, <<-365>>, <<0>>),
     FactPoint("FY", 2022, <<-365>>, <<0>>, NULL),
     FactPoint("Q4", 2023, <<274>>, <<365>>, <<40>>)}

\* computeRevenueGrowthYoY applied to the series.
ComputeRevenueGrowthYoY ==
    /\ output = NULL
    /\ output' = [growth |-> computeRevenueGrowthYoY(input)]
    /\ UNCHANGED input
    /\ UNCHANGED outsidePure

GrowthInit ==
    /\ PureBase
    /\ \E n \in 0..MaxAnnualPoints : input \in [1..n -> AnnualPoints]
    /\ output = NULL

GrowthSpec == GrowthInit /\ [][ComputeRevenueGrowthYoY]_vars

\* The valid annual points of the series, and their period ends.
AnnualAmong(points) ==
    {i \in 1..Len(points) : points[i].fp = "FY" /\ hasValidValue(points[i])}

AnnualEnds(points) == {points[i].end[1] : i \in AnnualAmong(points)}

\* C36: the growth is computed from an annual point of the latest period end
\* and an annual point of the period end before it, and it is null when the
\* series has fewer than two distinct annual period ends or the prior value
\* is 0.
C36_DistinctAnnualPeriods ==
    output # NULL =>
        LET ends == AnnualEnds(input)
            latest == CHOOSE e \in ends : \A f \in ends : f <= e
            before == CHOOSE e \in ends \ {latest} : \A f \in ends \ {latest} : f <= e
        IN  IF Cardinality(ends) < 2 THEN output.growth = NULL
            ELSE \/ /\ output.growth = NULL
                    /\ \E j \in AnnualAmong(input) :
                          input[j].end[1] = before /\ input[j].val[1] = 0
                 \/ /\ output.growth # NULL
                    /\ \E i, j \in AnnualAmong(input) :
                          /\ input[i].end[1] = latest
                          /\ input[j].end[1] = before
                          /\ input[j].val[1] # 0
                          /\ output.growth =
                               <<RatMul[RatDiv[Num[input[i].val[1] - input[j].val[1]],
                                               Num[Abs(input[j].val[1])]], Num[100]]>>

--------------------------------------------------------------------------
(* Status and in-flight handle *)

\* C37: the in-flight handle is set exactly when the status is 'loading', so
\* a trigger issued when the status is cold, ready or error finds no handle:
\* it starts a new run or resolves at once, and never returns a finished run.
C37_LoadingIffInFlight ==
    /\ [](preloadInFlight # NULL <=> state.status = "loading")
    /\ [](preloadInFlight # NULL => runs[preloadInFlight.run].pc \notin {"none", "done"})
    /\ [][(TriggerCall /\ state.status # "loading") =>
            \/ ret'.value = [resolved |-> TRUE] /\ UNCHANGED <<state, preloadInFlight, runs>>
            \/ \E id \in RunIds : Starts(id) /\ ret'.value = [run |-> id]]_vars

\* C37's case: a trigger issued in status 'error' starts a new run.
C37_Witness ==
    /\ ret # NULL /\ ret.op = "triggerPreload" /\ ret.value # NULL
    /\ state.status = "loading"
    /\ preloadInFlight = ret.value
    /\ \E id \in RunIds : runs[id].pc = "done" /\ runs[id].outcome = "error"

--------------------------------------------------------------------------
(* The fetch gate under calls issued one after another *)

\* No caller is waiting for its timer.
NoneWaiting == \A c \in 1..Len(callers) : callers[c].pc # "waiting"

\* The step is a call of polygonRateLimitedFetch.
GateCall == Len(callers') = Len(callers) + 1

\* The gate when each request is released before the next call arrives.
SequentialGateNext == GateNext /\ (GateCall => NoneWaiting)

SequentialGateSpec == Init /\ [][SequentialGateNext]_vars

\* C38: when the calls through the gate are issued one after another, every
\* request is released at least the minimum interval after the previous
\* release, a caller that arrives when the interval has elapsed is released in
\* the step of its arrival, and lastRequestAt is the time of the most recent
\* release.
C38_SequentialGate ==
    /\ [](\A i \in 1..Len(released) :
            i > 1 => released[i] - released[i - 1] >= MIN_REQUEST_INTERVAL_MS)
    /\ [](lastRequestAt = IF released = <<>> THEN 0 ELSE released[Len(released)])
    /\ [][(GateCall /\ gateNow - lastRequestAt >= MIN_REQUEST_INTERVAL_MS) =>
            /\ released' = Append(released, gateNow)
            /\ callers'[Len(callers')].pc = "fetching"]_vars
    /\ [][(GateCall /\ gateNow - lastRequestAt < MIN_REQUEST_INTERVAL_MS) =>
            /\ released' = released
            /\ callers'[Len(callers')].pc = "waiting"
            /\ callers'[Len(callers')].due = lastRequestAt + MIN_REQUEST_INTERVAL_MS]_vars

\* C38's case: three calls one after another, the second made to wait until
\* the interval had passed, the third arriving later and released at once.
C38_Witness ==
    /\ Len(released) = 3 /\ Len(callers) = 3
    /\ callers[2].due > released[1]
    /\ released[2] = callers[2].due
    /\ released[3] = callers[3].due
    /\ released[3] - released[2] > MIN_REQUEST_INTERVAL_MS
    /\ lastRequestAt = released[3]

--------------------------------------------------------------------------
(* The total and its clamp *)

\* The plain sum of the four sub-scores of a breakdown.
PlainSum(b) == b.peScore + b.psScore + b.revenueGrowthScore + b.operatingMarginScore

\* C39: the total calculateValueScore returns is the plain sum of its four
\* sub-scores: the sum already lies in [0,100], so clamp100 returns it as it is.
C39_TotalIsPlainSum ==
    output.lib # NULL =>
        LET sum == PlainSum(output.lib.breakdown)
        IN  /\ 0 <= sum /\ sum <= 100
            /\ clamp100[Num[sum]] = sum
            /\ output.lib.total = sum

\* C39's case: the four sub-scores at their maximum, where the sum reaches the
\* upper end of the clamp.
C39_Witness ==
    /\ output.lib # NULL
    /\ PlainSum(output.lib.breakdown) = 100
    /\ output.lib.total = 100

\* The same for the records the cache holds, whose valueScore and
\* scoreBreakdown enrichTicker takes from calculateValueScore.
CachedTotalsArePlainSums ==
    \A i \in 1..Len(state.tickers) :
        state.tickers[i].valueScore = PlainSum(state.tickers[i].scoreBreakdown)

--------------------------------------------------------------------------
(* Overlapping quote refreshes *)

\* The refresh that started last.
LastStarted == CHOOSE rid \in StartedRefreshes : \A o \in StartedRefreshes : o <= rid

\* C40, first part: while a refresh is running the in-flight handle is set, also
\* when a forced refresh started while another was running.
HandleUntilLastFinished == RunningRefreshes # {} => inFlightRefresh # NULL

\* C40, second part: once refreshes that ran at the same time have all finished,
\* the cache entry in memory holds the map of the one that started last.
EntryOfLastStarted ==
    (/\ Cardinality(StartedRefreshes) >= 2
     /\ RunningRefreshes = {}
     /\ cacheEntry # NULL)
        => cacheEntry.quotes.refresh = LastStarted

\* C40: overlapping quote refreshes keep the in-flight handle set until the last
\* running refresh has finished, and leave in memory the result of the refresh
\* that started last.
C40_OverlappingRefreshes == HandleUntilLastFinished /\ EntryOfLastStarted

============================================================================
